---------------------------- MODULE Spec2Model ----------------------------
(***************************************************************************)
(* GeoPay-Protocol: the adaptive routing and resilience engine.            *)
(*                                                                         *)
(* Spec      - the GeoPaySwitch client (quote, decideRoute, pay) over the  *)
(*             Layer-403 gateway, its quote cache, and a circuit breaker   *)
(*             instance an operator keeps for the gateway.                 *)
(* SpecIdem  - the IdempotencyManager under interleaved execute() calls.   *)
(* SpecBreaker - one CircuitBreaker under interleaved execute() calls, the *)
(*             manual trip()/reset(), its half-open timer, its monitor and *)
(*             the passing of time.                                        *)
(*                                                                         *)
(* Numbers: JavaScript numbers are modelled as exact rationals <<n, d>>    *)
(* (d > 0, lowest terms); success rates and weights are given in           *)
(* hundredths.  Time is an integer number of clock ticks.                  *)
(***************************************************************************)
EXTENDS Integers, Sequences, FiniteSets, TLC

VARIABLES
  routingConfig,  \* GeoPaySwitch.routingConfig (merged with the defaults)
  cacheStore,     \* Cache.store: the entries in insertion order
  now,            \* Date.now(), in ticks
  breaker,        \* the CircuitBreaker instance kept for the gateway
  frame,          \* the pay() call in flight (its locals), or the idle frame
  ret,            \* what the last finished quote()/pay() call gave its caller
  paid,           \* (idempotency key, intent) of every pay() that returned
  callsLeft,      \* how many more client calls the environment makes
  idemStore,      \* MemoryStorage.records of the IdempotencyManager
  idemProc,       \* the execute() calls in flight
  idemRet,        \* what the last finished execute() call gave its caller
  fnRuns,         \* how often fn was invoked, per idempotency key
  idemClock,      \* Date.now() of the IdempotencyManager, in ticks
  idemCalls,      \* how many execute() calls have been made
  cbConfig,       \* CircuitBreaker.config
  cbProc,         \* the CircuitBreaker.execute() calls in flight
  cbRet,          \* what the last finished CircuitBreaker.execute() gave its caller
  fired,          \* the callbacks the last breaker operation fired, in order
  halfOpenSuccesses, \* history: successes recorded in the current half-open period
  cbCalls,        \* how many CircuitBreaker.execute() calls have been made
  cacheConfig,    \* Cache.ttlMs and Cache.maxEntries
  cacheProc,      \* the Cache.getOrSet() calls in flight
  cacheRet,       \* what the last finished operation of the cache did and gave
  roundTrip,      \* history: how far a set / get / get / prune sequence has come
  routingQuotes,  \* the quote list handed to the routing functions
  routingOut,     \* what the routing function applied last returned
  httpStatus,     \* the HTTP status of the gateway's response to a request
  httpThrown      \* what Layer403Client.request threw for it (0/1 sequence)

clientVars == <<routingConfig, cacheStore, now, breaker, frame, ret, paid, callsLeft>>
idemVars == <<idemStore, idemProc, idemRet, fnRuns, idemClock, idemCalls>>
cbVars == <<cbConfig, cbProc, cbRet, fired, halfOpenSuccesses, cbCalls>>
cacheVars == <<cacheConfig, cacheProc, cacheRet, roundTrip>>
routingVars == <<routingQuotes, routingOut>>
httpVars == <<httpStatus, httpThrown>>
vars == <<clientVars, idemVars, cbVars, cacheVars, routingVars, httpVars>>

---------------------------------------------------------------------------
(* Bounds of the model                                                     *)

MaxTries == 3        \* largest routing.fallback.maxTries configured
MaxCalls == 2        \* client calls per behaviour
MaxTime == 3         \* clock ticks per behaviour of the idempotency manager
MaxExecutes == 2     \* execute() calls per behaviour
NumProcs == 2        \* concurrent callers of execute()
IdemTtl == 2         \* IdempotencyConfig.ttlMs, in ticks
IdemLockTimeout == 1 \* IdempotencyConfig.lockTimeoutMs, in ticks
MaxNow == 3          \* last clock tick of a behaviour of the circuit breaker
MaxCbCalls == 3      \* CircuitBreaker.execute() calls per behaviour
RollingWindow == 1   \* CircuitBreakerConfig.rollingWindowMs, in ticks

---------------------------------------------------------------------------
(* JavaScript values                                                       *)

\* An optional number that is absent (successRate?, latencyMs?, remainingDaily?).
Undefined == -1

\* The value undefined where a value of any type is expected.
UndefinedValue == "undefined"

RECURSIVE GCD(_, _)
GCD(a, b) == IF b = 0 THEN a ELSE GCD(b, a % b)

Abs(x) == IF x < 0 THEN -x ELSE x

\* The rational n/d in lowest terms, d > 0.
Rat(n, d) ==
  LET s == IF d < 0 THEN -1 ELSE 1
      g == GCD(Abs(n), Abs(d))
  IN  IF g = 0 THEN <<0, 1>> ELSE <<(s * n) \div g, (s * d) \div g>>

RAdd(a, b) == Rat(a[1] * b[2] + b[1] * a[2], a[2] * b[2])
RSub(a, b) == Rat(a[1] * b[2] - b[1] * a[2], a[2] * b[2])
RMul(a, b) == Rat(a[1] * b[1], a[2] * b[2])
RLess(a, b) == a[1] * b[2] < b[1] * a[2]
RMin(a, b) == IF RLess(b, a) THEN b ELSE a
RMax(a, b) == IF RLess(a, b) THEN b ELSE a

RECURSIVE SeqMin(_)
SeqMin(s) == IF Len(s) = 1 THEN s[1] ELSE RMin(s[1], SeqMin(Tail(s)))

RECURSIVE SeqMax(_)
SeqMax(s) == IF Len(s) = 1 THEN s[1] ELSE RMax(s[1], SeqMax(Tail(s)))

RECURSIVE SelectSeqBy(_, _)
\* Array.prototype.filter with the predicate given as a set of accepted values.
SelectSeqBy(s, keep) ==
  IF s = <<>> THEN <<>>
  ELSE IF s[1] \in keep THEN <<s[1]>> \o SelectSeqBy(Tail(s), keep)
       ELSE SelectSeqBy(Tail(s), keep)

Range(s) == {s[i] : i \in DOMAIN s}

---------------------------------------------------------------------------
(* Errors (types/errors)                                                   *)

RETRYABLE_CODES ==
  {"TIMEOUT", "NETWORK_ERROR", "SERVICE_UNAVAILABLE", "RATE_LIMITED",
   "INTERNAL_ERROR", "LAYER403_ERROR"}

\* createError + new GeoPayException: details is "gateway" (a response's
\* status), "decision" or "attempts"; the optional payloads are 0/1 sequences.
createError(code, detailKind, decision, attempts) ==
  [geoPay |-> TRUE, code |-> code, isRetryable |-> code \in RETRYABLE_CODES,
   detailKind |-> detailKind, decision |-> decision, attempts |-> attempts]

\* A thrown value that is not a GeoPayException (a TypeError, say).
OtherError ==
  [geoPay |-> FALSE, code |-> "TypeError", isRetryable |-> FALSE,
   detailKind |-> "none", decision |-> <<>>, attempts |-> <<>>]

\* Map HTTP status to error code.
httpStatusToErrorCode(status) ==
  CASE status = 400 -> "INVALID_INTENT"
    [] status = 401 -> "AUTHENTICATION_ERROR"
    [] status = 403 -> "REGION_NOT_ALLOWED"
    [] status = 404 -> "REGION_NOT_FOUND"
    [] status = 408 -> "TIMEOUT"
    [] status = 429 -> "RATE_LIMITED"
    [] status \in {500, 502, 503, 504} -> "SERVICE_UNAVAILABLE"
    [] OTHER -> "UNKNOWN_ERROR"

\* isRetryableError with every error taken for retryable.
isRetryableErrorAlways(error) == TRUE

isRetryableError(error) == error.isRetryable

---------------------------------------------------------------------------
(* Scoring Engine (routing/scorer)                                         *)

Hundredths(x) == Rat(x, 100)

successRateOf(q) == IF q.successRate = Undefined THEN Rat(9, 10) ELSE Hundredths(q.successRate)
latencyOf(q) == IF q.latencyMs = Undefined THEN Rat(100, 1) ELSE Rat(q.latencyMs, 1)

normalize(value, min, max) ==
  IF max = min THEN Rat(0, 1)
  ELSE LET a == RSub(value, min)
           b == RSub(max, min)
       IN  Rat(a[1] * b[2], a[2] * b[1])

calculatePenalties(quote) ==
  LET limitRatio == RSub(Rat(1, 1), Rat(quote.limits.remainingDaily, quote.limits.max))
      p1 == IF quote.limits.remainingDaily # Undefined /\ RLess(Rat(8, 10), limitRatio)
            THEN RMul(Rat(5, 10), RSub(limitRatio, Rat(8, 10)))
            ELSE Rat(0, 1)
      p2 == IF quote.successRate # Undefined /\ quote.successRate < 80
            THEN RMul(RSub(Rat(8, 10), Hundredths(quote.successRate)), Rat(2, 10))
            ELSE Rat(0, 1)
      p3 == IF quote.latencyMs # Undefined /\ quote.latencyMs > 500
            THEN Rat(5, 100)
            ELSE Rat(0, 1)
  IN  RAdd(RAdd(p1, p2), p3)

\* calculateScore without the clamp to [0, 1].
calculateScoreUnclamped(quote, weights, ranges) ==
  LET normalizedCost == normalize(Rat(quote.totalCost, 1), ranges.cost.min, ranges.cost.max)
      normalizedSuccessInverted ==
        RSub(Rat(1, 1),
             normalize(successRateOf(quote), ranges.successRate.min, ranges.successRate.max))
      normalizedLatency == normalize(latencyOf(quote), ranges.latency.min, ranges.latency.max)
      weighted ==
        RAdd(RAdd(RMul(Hundredths(weights.price), normalizedCost),
                  RMul(Hundredths(weights.success), normalizedSuccessInverted)),
             RMul(Hundredths(weights.latency), normalizedLatency))
  IN  RAdd(weighted, calculatePenalties(quote))

calculateScore(quote, weights, ranges) ==
  LET normalizedCost == normalize(Rat(quote.totalCost, 1), ranges.cost.min, ranges.cost.max)
      normalizedSuccessInverted ==
        RSub(Rat(1, 1),
             normalize(successRateOf(quote), ranges.successRate.min, ranges.successRate.max))
      normalizedLatency == normalize(latencyOf(quote), ranges.latency.min, ranges.latency.max)
      weighted ==
        RAdd(RAdd(RMul(Hundredths(weights.price), normalizedCost),
                  RMul(Hundredths(weights.success), normalizedSuccessInverted)),
             RMul(Hundredths(weights.latency), normalizedLatency))
      score == RAdd(weighted, calculatePenalties(quote))
  IN  RMax(Rat(0, 1), RMin(Rat(1, 1), score))

RECURSIVE InsertByScore(_, _)
\* One step of the stable ascending sort: q goes after every entry whose
\* score is not greater than its own.
InsertByScore(sorted, q) ==
  IF sorted = <<>> THEN <<q>>
  ELSE IF RLess(q.score, sorted[1].score) THEN <<q>> \o sorted
       ELSE <<sorted[1]>> \o InsertByScore(Tail(sorted), q)

RECURSIVE SortByScore(_)
\* Array.prototype.sort((a, b) => a.score - b.score), which is stable.
SortByScore(s) ==
  IF s = <<>> THEN <<>>
  ELSE InsertByScore(SortByScore(SubSeq(s, 1, Len(s) - 1)), s[Len(s)])

scoreQuotes(quotes, weights) ==
  IF Len(quotes) = 0 THEN <<>>
  ELSE
    LET costs == [i \in DOMAIN quotes |-> Rat(quotes[i].totalCost, 1)]
        successRates == [i \in DOMAIN quotes |-> successRateOf(quotes[i])]
        latencies == [i \in DOMAIN quotes |-> latencyOf(quotes[i])]
        ranges == [cost |-> [min |-> SeqMin(costs), max |-> SeqMax(costs)],
                   successRate |-> [min |-> SeqMin(successRates), max |-> SeqMax(successRates)],
                   latency |-> [min |-> SeqMin(latencies), max |-> SeqMax(latencies)]]
        scoredQuotes ==
          [i \in DOMAIN quotes |->
             [quotes[i] EXCEPT !.score = calculateScore(quotes[i], weights, ranges)]]
    IN  SortByScore(scoredQuotes)

\* ScoringResult.best
bestOf(quotes) == IF quotes = <<>> THEN <<>> ELSE <<quotes[1]>>

---------------------------------------------------------------------------
(* Filter Engine (routing/filter)                                          *)

\* checkQuote with the allow list looked at before the availability.
checkQuoteAllowFirst(quote, intent, config) ==
  IF config.allowedRegions # {} /\ quote.region \notin config.allowedRegions
    THEN "region_not_allowed"
  ELSE IF ~quote.available THEN "region_unavailable"
  ELSE IF config.blockedRegions # {} /\ quote.region \in config.blockedRegions
    THEN "region_blocked"
  ELSE IF intent.amount < quote.limits.min THEN "amount_below_min"
  ELSE IF intent.amount > quote.limits.max THEN "amount_above_max"
  ELSE IF quote.limits.remainingDaily # Undefined /\ intent.amount > quote.limits.remainingDaily
    THEN "daily_limit_exceeded"
  ELSE IF quote.supportedMethods # {} /\ intent.paymentMethod \notin quote.supportedMethods
    THEN "method_not_supported"
  ELSE "passed"

\* The reason the quote is filtered for, or "passed".
checkQuote(quote, intent, config) ==
  IF ~quote.available THEN "region_unavailable"
  ELSE IF config.allowedRegions # {} /\ quote.region \notin config.allowedRegions
    THEN "region_not_allowed"
  ELSE IF config.blockedRegions # {} /\ quote.region \in config.blockedRegions
    THEN "region_blocked"
  ELSE IF intent.amount < quote.limits.min THEN "amount_below_min"
  ELSE IF intent.amount > quote.limits.max THEN "amount_above_max"
  ELSE IF quote.limits.remainingDaily # Undefined /\ intent.amount > quote.limits.remainingDaily
    THEN "daily_limit_exceeded"
  ELSE IF quote.supportedMethods # {} /\ intent.paymentMethod \notin quote.supportedMethods
    THEN "method_not_supported"
  ELSE "passed"

RECURSIVE filterPassed(_, _, _)
filterPassed(quotes, intent, config) ==
  IF quotes = <<>> THEN <<>>
  ELSE (IF checkQuote(quotes[1], intent, config) = "passed" THEN <<quotes[1]>> ELSE <<>>)
       \o filterPassed(Tail(quotes), intent, config)

\* filterQuotes recording every quote among the filtered ones.
filterFilteredAll(quotes, intent, config) ==
  [i \in DOMAIN quotes |->
     [quote |-> quotes[i], reason |-> checkQuote(quotes[i], intent, config)]]

RECURSIVE filterFiltered(_, _, _)
filterFiltered(quotes, intent, config) ==
  IF quotes = <<>> THEN <<>>
  ELSE (IF checkQuote(quotes[1], intent, config) = "passed" THEN <<>>
        ELSE <<[quote |-> quotes[1], reason |-> checkQuote(quotes[1], intent, config)]>>)
       \o filterFiltered(Tail(quotes), intent, config)

filterQuotes(quotes, intent, config) ==
  [passed |-> filterPassed(quotes, intent, config),
   filtered |-> filterFiltered(quotes, intent, config)]

---------------------------------------------------------------------------
(* Strategy Decider (routing/strategy)                                     *)

applyStrategy(quotes, config) ==
  IF config.strategy = "cheapest"
    THEN scoreQuotes(quotes, [price |-> 100, success |-> 0, latency |-> 0])
  ELSE IF config.strategy = "highest_success"
    THEN scoreQuotes(quotes, [price |-> 0, success |-> 100, latency |-> 0])
  ELSE scoreQuotes(quotes, config.weights)

\* Array.prototype.find: the 0/1 sequence of the first element in keep.
FindFirst(s, keep) ==
  LET m == SelectSeqBy(s, keep) IN IF m = <<>> THEN <<>> ELSE <<m[1]>>

\* makeRouteDecision ranking every quote, the unavailable ones too.
makeRouteDecisionOfAll(quoteResult, config) ==
  LET all == Range(quoteResult.quotes)
      pinnedQuote ==
        IF config.mode = "pinned" /\ config.pinnedRegion # ""
        THEN FindFirst(quoteResult.quotes,
                       {q \in all : q.region = config.pinnedRegion /\ q.available})
        ELSE <<>>
      rankedQuotes == applyStrategy(quoteResult.quotes, config)
  IN  IF pinnedQuote # <<>>
      THEN <<[chosenRegion |-> pinnedQuote[1].region,
              chosenRouterId |-> pinnedQuote[1].routerId,
              alternatives |->
                SelectSeqBy(quoteResult.quotes,
                            {q \in all : q.region # pinnedQuote[1].region}),
              quoteResult |-> quoteResult,
              strategy |-> "pinned"]>>
      ELSE IF Len(quoteResult.quotes) = 0 THEN <<>>
      ELSE <<[chosenRegion |-> rankedQuotes[1].region,
              chosenRouterId |-> rankedQuotes[1].routerId,
              alternatives |-> Tail(rankedQuotes),
              quoteResult |-> quoteResult,
              strategy |-> config.strategy]>>

\* The RouteDecision, as a 0/1 sequence (null is <<>>).
makeRouteDecision(quoteResult, config) ==
  LET all == Range(quoteResult.quotes)
      pinnedQuote ==
        IF config.mode = "pinned" /\ config.pinnedRegion # ""
        THEN FindFirst(quoteResult.quotes,
                       {q \in all : q.region = config.pinnedRegion /\ q.available})
        ELSE <<>>
      availableQuotes == SelectSeqBy(quoteResult.quotes, {q \in all : q.available})
      rankedQuotes == applyStrategy(availableQuotes, config)
  IN  IF pinnedQuote # <<>>
      THEN <<[chosenRegion |-> pinnedQuote[1].region,
              chosenRouterId |-> pinnedQuote[1].routerId,
              alternatives |->
                SelectSeqBy(quoteResult.quotes,
                            {q \in all : q.region # pinnedQuote[1].region}),
              quoteResult |-> quoteResult,
              strategy |-> "pinned"]>>
      ELSE IF Len(availableQuotes) = 0 THEN <<>>
      ELSE <<[chosenRegion |-> rankedQuotes[1].region,
              chosenRouterId |-> rankedQuotes[1].routerId,
              alternatives |-> Tail(rankedQuotes),
              quoteResult |-> quoteResult,
              strategy |-> config.strategy]>>

\* getNextFallback without the failed-region and availability tests.
getNextFallbackUnchecked(alternatives, failedRegions) ==
  IF alternatives = <<>> THEN <<>> ELSE <<alternatives[1]>>

RECURSIVE getNextFallbackLast(_, _)
\* getNextFallback scanning the alternatives from the end.
getNextFallbackLast(alternatives, failedRegions) ==
  IF alternatives = <<>> THEN <<>>
  ELSE IF alternatives[Len(alternatives)].region \notin failedRegions
          /\ alternatives[Len(alternatives)].available
       THEN <<alternatives[Len(alternatives)]>>
       ELSE getNextFallbackLast(SubSeq(alternatives, 1, Len(alternatives) - 1),
                                failedRegions)

RECURSIVE getNextFallback(_, _)
\* The first alternative that is available and whose region has not failed,
\* as a 0/1 sequence; the first argument is decision.alternatives.
getNextFallback(alternatives, failedRegions) ==
  IF alternatives = <<>> THEN <<>>
  ELSE IF alternatives[1].region \notin failedRegions /\ alternatives[1].available
       THEN <<alternatives[1]>>
       ELSE getNextFallback(Tail(alternatives), failedRegions)

---------------------------------------------------------------------------
(* Quote Cache (cache)                                                     *)

CacheTtl == 1          \* CacheConfig.ttlMs of the client, in ticks
CacheMaxEntries == 1000

CacheCallers == {1, 2} \* the concurrent callers of Cache.getOrSet()

\* The template string `quote:${intentId}:${amount}:${currency}:${method}`;
\* ToString is the decimal numeral `${amount}` gives for an integer amount.
createQuoteCacheKey(intentId, amount, currency, method) ==
  "quote:" \o intentId \o ":" \o ToString(amount) \o ":" \o currency \o ":" \o method

\* Map.has / the position of key in the store (0: absent)
CacheIndex(store, key) ==
  IF \E i \in DOMAIN store : store[i].key = key
  THEN CHOOSE i \in DOMAIN store : store[i].key = key
  ELSE 0

\* Map.delete
CacheDelete(store, key) ==
  SelectSeqBy(store, {e \in Range(store) : e.key # key})

\* Cache.get with an expired entry left in the store.
CacheGetKeepExpired(store, key, t) ==
  LET i == CacheIndex(store, key)
  IN  IF i = 0 THEN [value |-> <<>>, store |-> store]
      ELSE IF t > store[i].expiresAt
           THEN [value |-> <<>>, store |-> store]
           ELSE [value |-> <<store[i].value>>, store |-> store]

\* Cache.get: the value as a 0/1 sequence, and the store it leaves.
CacheGet(store, key, t) ==
  LET i == CacheIndex(store, key)
  IN  IF i = 0 THEN [value |-> <<>>, store |-> store]
      ELSE IF t > store[i].expiresAt
           THEN [value |-> <<>>, store |-> CacheDelete(store, key)]
           ELSE [value |-> <<store[i].value>>, store |-> store]

\* What get() hands its caller: the entry's value, or undefined when there
\* is no entry or it has expired.
cacheGetResult(got) == IF got.value = <<>> THEN UndefinedValue ELSE got.value[1]

\* Cache.prune: the store without its expired entries.
CachePrune(store, t) ==
  SelectSeqBy(store, {e \in Range(store) : ~(t > e.expiresAt)})

\* Cache.evictOldest that stops after pruning.
CachePruneOnly(store, t, maxEntries) == CachePrune(store, t)

\* Cache.evictOldest that evicts the oldest entry without pruning first.
CacheEvictUnpruned(store, t, maxEntries) ==
  LET oldest == CHOOSE i \in DOMAIN store :
                  /\ \A j \in DOMAIN store : store[i].createdAt <= store[j].createdAt
                  /\ \A j \in 1..(i - 1) : store[j].createdAt > store[i].createdAt
  IN  IF Len(store) >= maxEntries /\ store # <<>>
      THEN CacheDelete(store, store[oldest].key)
      ELSE store

\* Cache.evictOldest
CacheEvictOldest(store, t, maxEntries) ==
  LET pruned == CachePrune(store, t)
      oldest == CHOOSE i \in DOMAIN pruned :
                  /\ \A j \in DOMAIN pruned : pruned[i].createdAt <= pruned[j].createdAt
                  /\ \A j \in 1..(i - 1) : pruned[j].createdAt > pruned[i].createdAt
  IN  IF Len(pruned) >= maxEntries /\ pruned # <<>>
      THEN CacheDelete(pruned, pruned[oldest].key)
      ELSE pruned

\* Cache.set, its first statement: the store after the eviction at capacity.
CacheMakeRoom(store, t, maxEntries) ==
  IF Len(store) >= maxEntries THEN CacheEvictOldest(store, t, maxEntries) ELSE store

\* The keys of the entries of a store.
CacheKeys(store) == {store[i].key : i \in DOMAIN store}

\* Cache.set
CacheSet(store, key, value, ttl, t, maxEntries) ==
  LET room == CacheMakeRoom(store, t, maxEntries)
      entry == [key |-> key, value |-> value, expiresAt |-> t + ttl, createdAt |-> t]
      i == CacheIndex(room, key)
  IN  IF i = 0 THEN Append(room, entry) ELSE [room EXCEPT ![i] = entry]

---------------------------------------------------------------------------
(* Payment intents and their validation (types/intent)                     *)

\* The errors validatePaymentIntent reports; the intent is valid iff none.
validatePaymentIntent(intent) ==
  (IF intent.id = "" THEN {"Missing or invalid 'id' field"} ELSE {})
  \cup (IF intent.amount <= 0 THEN {"Amount must be a positive number"} ELSE {})
  \cup (IF intent.currency = "" \/ Len(intent.currency) # 3
        THEN {"Currency must be a valid ISO 4217 code"} ELSE {})
  \cup (IF intent.paymentMethod = "" THEN {"Payment method is required"} ELSE {})
  \cup (IF intent.paymentMethod = "card" /\ intent.cardToken = ""
        THEN {"Card token is required for card payments"} ELSE {})

ValidIntent ==
  [id |-> "pi_1", amount |-> 5, currency |-> "USD", paymentMethod |-> "card",
   cardToken |-> "tok_1"]

\* The intents callers pass: a valid one, and invalid ones.
Intents ==
  {ValidIntent,
   [ValidIntent EXCEPT !.cardToken = ""]}

\* The intents quote() is called with on its own; quote() validates none of
\* them. Beside the valid one: another amount, an id with a colon in it, and
\* a currency as a request body supplies it, unchecked.
QuoteIntents ==
  {ValidIntent,
   [ValidIntent EXCEPT !.amount = 6],
   [ValidIntent EXCEPT !.id = "pi_1:5"],
   [ValidIntent EXCEPT !.currency = "5:USD"]}

---------------------------------------------------------------------------
(* The Layer-403 gateway, as the client sees it (layer403/client)          *)

Quote(region, routerId, totalCost, successRate, available) ==
  [region |-> region, routerId |-> routerId, totalCost |-> totalCost,
   successRate |-> successRate, latencyMs |-> Undefined, score |-> Rat(0, 1),
   available |-> available,
   limits |-> [min |-> 1, max |-> 10, remainingDaily |-> Undefined],
   supportedMethods |-> {}]

\* What getQuotes may answer: three regions; two routers of one region and an
\* unavailable region; nothing that passes the filter.
GatewayQuotes ==
  {<<Quote("EU", "r_eu", 3, 95, TRUE), Quote("UK", "r_uk", 2, 70, TRUE),
     Quote("SG", "r_sg", 4, 99, TRUE)>>,
   <<Quote("EU", "r_eu", 3, 95, TRUE), Quote("SG", "r_sg", 1, Undefined, FALSE),
     Quote("EU", "r_eu2", 2, 90, TRUE), Quote("UK", "r_uk", 4, Undefined, TRUE)>>,
   <<Quote("BR", "r_br", 1, 95, TRUE), Quote("SG", "r_sg", 4, 95, FALSE)>>}

\* getQuotes returns a list of quotes or throws a GeoPayException.
GetQuotesOutcomes ==
  {[ok |-> TRUE, quotes |-> qs, code |-> ""] : qs \in GatewayQuotes}
  \cup {[ok |-> FALSE, quotes |-> <<>>, code |-> "SERVICE_UNAVAILABLE"]}

\* executePayment returns the gateway's PaymentResult or throws: a
\* GeoPayException of some code, or a value that is no GeoPayException.
PaymentStatuses == {"succeeded", "requires_action"}
GatewayErrorCodes == {"TIMEOUT", "PAYMENT_DECLINED"}
ExecutePaymentOutcomes ==
  {[ok |-> TRUE, status |-> st, error |-> <<>>] : st \in PaymentStatuses}
  \cup {[ok |-> FALSE, status |-> "", error |-> <<createError(c, "gateway", <<>>, <<>>)>>] :
          c \in GatewayErrorCodes}
  \cup {[ok |-> FALSE, status |-> "", error |-> <<OtherError>>]}

\* The PaymentResult the gateway answers a pay request with.
GatewayPaymentResult(request, status) ==
  [intentId |-> request.intent.id, status |-> status,
   regionUsed |-> request.region, routerId |-> request.routerId]

---------------------------------------------------------------------------
(* Circuit breaker (circuit-breaker)                                       *)

ResetTimeout == 1      \* CircuitBreakerConfig.resetTimeoutMs, in ticks

\* shouldAttemptReset answering yes whatever the time.
shouldAttemptResetAlways(cb, t) == TRUE

\* shouldAttemptReset answering no whatever the time.
shouldAttemptResetNever(cb, t) == FALSE

\* shouldAttemptReset
shouldAttemptReset(cb, t) ==
  IF cb.openedAt = Undefined THEN TRUE ELSE t - cb.openedAt >= ResetTimeout

\* cleanupOldCalls with every call record kept.
keepAllCalls(calls, t) == calls

\* cleanupOldCalls: the call records inside the rolling window.
cleanupOldCalls(calls, t) ==
  LET inWindow(c) == c.timestamp >= t - RollingWindow
  IN  SelectSeq(calls, inWindow)

\* transitionTo without the half-open timer it schedules on opening.
transitionToWithoutTimer(cb, newState, t) ==
  IF cb.state = newState THEN cb
  ELSE IF newState = "open"
    THEN [cb EXCEPT !.state = "open", !.openedAt = t, !.timer = FALSE,
                    !.calls = cleanupOldCalls(@, t)]
  ELSE IF newState = "half-open"
    THEN [cb EXCEPT !.state = "half-open", !.timer = FALSE,
                    !.calls = cleanupOldCalls(@, t)]
  ELSE [cb EXCEPT !.state = "closed", !.timer = FALSE, !.openedAt = Undefined,
                  !.consecutiveFailures = 0, !.calls = cleanupOldCalls(@, t)]

\* transitionTo: the breaker it leaves (timer: the half-open timer is set;
\* it is due ResetTimeout after openedAt).  The getStats() call in it runs
\* cleanupOldCalls.
transitionTo(cb, newState, t) ==
  IF cb.state = newState THEN cb
  ELSE IF newState = "open"
    THEN [cb EXCEPT !.state = "open", !.openedAt = t, !.timer = TRUE,
                    !.calls = cleanupOldCalls(@, t)]
  ELSE IF newState = "half-open"
    THEN [cb EXCEPT !.state = "half-open", !.timer = FALSE,
                    !.calls = cleanupOldCalls(@, t)]
  ELSE [cb EXCEPT !.state = "closed", !.timer = FALSE, !.openedAt = Undefined,
                  !.consecutiveFailures = 0, !.calls = cleanupOldCalls(@, t)]

NewBreaker ==
  [state |-> "closed", calls |-> <<>>, consecutiveSuccesses |-> 0,
   consecutiveFailures |-> 0, openedAt |-> Undefined, timer |-> FALSE]

\* CircuitBreaker.trip
trip(cb, t) == transitionTo(cb, "open", t)

\* CircuitBreaker.reset
reset(cb, t) ==
  [transitionTo(cb, "closed", t) EXCEPT
     !.calls = <<>>, !.consecutiveSuccesses = 0, !.consecutiveFailures = 0,
     !.openedAt = Undefined]

\* The callback of CircuitBreakerConfig that belongs to a state.
CallbackOf(state) ==
  IF state = "open" THEN "onOpen"
  ELSE IF state = "half-open" THEN "onHalfOpen"
  ELSE "onClose"

\* transitionTo with the callback fired on every call.
transitionCallbacksUnguarded(cb, newState) == <<CallbackOf(newState)>>

\* transitionTo: the callbacks it fires.
transitionCallbacks(cb, newState) ==
  IF cb.state = newState THEN <<>> ELSE <<CallbackOf(newState)>>

\* A call of transitionTo: the breaker it leaves and the callbacks it fired.
transition(cb, newState, t) ==
  [breaker |-> transitionTo(cb, newState, t),
   fired |-> transitionCallbacks(cb, newState)]

\* No call of transitionTo.
still(cb) == [breaker |-> cb, fired |-> <<>>]

\* The configurations a CircuitBreaker is built with (resetTimeoutMs is
\* ResetTimeout, rollingWindowMs is RollingWindow; fallback "default" throws
\* CircuitOpenError, "custom" returns a value).
BreakerConfig(failureThreshold, successThreshold, fallback) ==
  [failureThreshold |-> failureThreshold, successThreshold |-> successThreshold,
   fallback |-> fallback]

BreakerConfigs ==
  {BreakerConfig(1, 1, "default"), BreakerConfig(1, 2, "default"),
   BreakerConfig(2, 1, "default"), BreakerConfig(2, 2, "default"),
   BreakerConfig(2, 2, "custom")}

DefaultBreakerConfig == BreakerConfig(2, 2, "default")

\* config.isFailure counting every error (the default predicate).
isFailureAlways(error) == TRUE

\* config.isFailure: the configured predicate counts every error but one
\* kind the breaker is told to disregard.
isFailure(error) == error # "uncounted_error"

\* The failure records among the call records.
failuresOf(calls) == Cardinality({i \in DOMAIN calls : ~calls[i].success})

\* recordSuccess (call records: timestamp and success; nothing reads the
\* duration and the error of a record).
recordSuccess(cb, config, t) ==
  LET pushed == [cb EXCEPT
        !.calls = cleanupOldCalls(Append(@, [timestamp |-> t, success |-> TRUE]), t),
        !.consecutiveSuccesses = @ + 1,
        !.consecutiveFailures = 0]
  IN  IF /\ pushed.state = "half-open"
         /\ pushed.consecutiveSuccesses >= config.successThreshold
        THEN transition(pushed, "closed", t)
      ELSE still(pushed)

\* recordFailure with the threshold applied in half-open as well.
recordFailureByThreshold(cb, config, t) ==
  LET pushed == [cb EXCEPT
        !.calls = cleanupOldCalls(Append(@, [timestamp |-> t, success |-> FALSE]), t),
        !.consecutiveFailures = @ + 1,
        !.consecutiveSuccesses = 0]
  IN  IF /\ pushed.state \in {"half-open", "closed"}
         /\ failuresOf(pushed.calls) >= config.failureThreshold
        THEN transition(pushed, "open", t)
      ELSE still(pushed)

\* recordFailure
recordFailure(cb, config, t) ==
  LET pushed == [cb EXCEPT
        !.calls = cleanupOldCalls(Append(@, [timestamp |-> t, success |-> FALSE]), t),
        !.consecutiveFailures = @ + 1,
        !.consecutiveSuccesses = 0]
  IN  IF pushed.state = "half-open" THEN transition(pushed, "open", t)
      ELSE IF /\ pushed.state = "closed"
              /\ failuresOf(pushed.calls) >= config.failureThreshold
        THEN transition(pushed, "open", t)
      ELSE still(pushed)

---------------------------------------------------------------------------
(* GeoPaySwitch (client): configuration and call frames                    *)

DefaultWeights == [price |-> 70, success |-> 25, latency |-> 5]

\* The routing configurations a client is built with.
RoutingConfig(mode, enabled, maxTries, strategy) ==
  [mode |-> mode, pinnedRegion |-> IF mode = "pinned" THEN "EU" ELSE "",
   allowedRegions |-> {}, blockedRegions |-> {"BR"},
   weights |-> DefaultWeights,
   fallback |-> [enabled |-> enabled, maxTries |-> maxTries],
   strategy |-> strategy]

RoutingConfigs ==
  {RoutingConfig("auto", TRUE, n, "balanced") : n \in 0..MaxTries}
  \cup {RoutingConfig(m, FALSE, MaxTries, "balanced") : m \in {"auto", "pinned"}}
  \cup {RoutingConfig("auto", TRUE, MaxTries, st) : st \in {"cheapest", "highest_success"}}
  \cup {RoutingConfig("pinned", TRUE, MaxTries, "balanced"),
        RoutingConfig("dry-run", TRUE, MaxTries, "balanced")}

\* Idempotency keys are tuples: <<"caller", n>> or <<"generated", n>>.
NoKey == <<>>
PaymentOptions(idempotencyKey, forceRegion, noFallback) ==
  [idempotencyKey |-> idempotencyKey, forceRegion |-> forceRegion,
   noFallback |-> noFallback]

\* The options callers pass: none, each one alone, and all three.
PaymentOptionsSet ==
  {PaymentOptions(NoKey, "", FALSE),
   PaymentOptions(<<"caller", 1>>, "", FALSE),
   PaymentOptions(NoKey, "SG", FALSE),
   PaymentOptions(NoKey, "", TRUE),
   PaymentOptions(<<"caller", 1>>, "SG", TRUE)}
QuoteOptionsSet == [force : BOOLEAN, includeUnavailable : BOOLEAN]
NoQuoteOptions == [force |-> FALSE, includeUnavailable |-> FALSE]

IdleFrame ==
  [pc |-> "idle", intent |-> <<>>, options |-> <<>>, idempotencyKey |-> NoKey,
   decision |-> <<>>, currentRegion |-> "", currentRouterId |-> "", attempt |-> 0,
   maxAttempts |-> 0, attempts |-> <<>>, failedRegions |-> {}, sent |-> <<>>,
   fetched |-> 0, replayOf |-> <<>>]

NoRet ==
  [op |-> "none", intent |-> <<>>, options |-> <<>>, status |-> "", result |-> <<>>,
   error |-> <<>>, attempts |-> <<>>, sent |-> <<>>, fetched |-> 0, replayOf |-> <<>>,
   decision |-> <<>>, maxAttempts |-> 0]

\* generateIdempotencyKey(): a key no caller supplies, fresh for each call.
generateIdempotencyKey(n) == <<"generated", n>>

\* quote(), from the gateway's answer to the QuoteResult: filter, score and
\* rank, build the result.
buildQuoteResult(config, intent, includeUnavailable, rawQuotes) ==
  LET f == filterQuotes(rawQuotes, intent, config)
      scored == scoreQuotes(f.passed, config.weights)
  IN  [intentId |-> intent.id,
       quotes |-> IF includeUnavailable
                  THEN scored \o [i \in DOMAIN f.filtered |-> f.filtered[i].quote]
                  ELSE scored,
       best |-> bestOf(scored),
       fromCache |-> FALSE,
       warnings |-> Len(f.filtered)]

\* buildQuoteResult and makeRouteDecision over every input the environment
\* gives them, computed once.
QuoteResultMemo ==
  {[config |-> c, intent |-> i, includeUnavailable |-> u, rawQuotes |-> g,
    result |-> buildQuoteResult(c, i, u, g)] :
     c \in RoutingConfigs, i \in Intents \cup QuoteIntents, u \in BOOLEAN,
     g \in GatewayQuotes}

RouteDecisionMemo ==
  {[config |-> m.config, quoteResult |-> [m.result EXCEPT !.fromCache = fc],
    decision |-> makeRouteDecision([m.result EXCEPT !.fromCache = fc], m.config)] :
     m \in QuoteResultMemo, fc \in BOOLEAN}

quoteResultOf(config, intent, includeUnavailable, rawQuotes) ==
  (CHOOSE m \in QuoteResultMemo :
     /\ m.config = config /\ m.intent = intent
     /\ m.includeUnavailable = includeUnavailable /\ m.rawQuotes = rawQuotes).result

routeDecisionOf(quoteResult, config) ==
  (CHOOSE m \in RouteDecisionMemo :
     m.config = config /\ m.quoteResult = quoteResult).decision

\* GeoPaySwitch.quote: what it returns or throws, the store it leaves, and
\* whether it called the gateway (whose answer is gw).
quote(store, intent, options, gw, t) ==
  LET cacheKey == createQuoteCacheKey(intent.id, intent.amount, intent.currency,
                                      intent.paymentMethod)
      \* got: the cache lookup; result: the QuoteResult built from gw.quotes
      answer(got, result) ==
        IF got.value # <<>>
          THEN [ok |-> TRUE, result |-> <<[got.value[1] EXCEPT !.fromCache = TRUE]>>,
                error |-> <<>>, store |-> got.store, fetched |-> 0]
        ELSE IF ~gw.ok
          THEN [ok |-> FALSE, result |-> <<>>,
                error |-> <<createError(gw.code, "gateway", <<>>, <<>>)>>,
                store |-> got.store, fetched |-> 1]
        ELSE [ok |-> TRUE, result |-> <<result>>, error |-> <<>>,
              store |-> IF options.force THEN got.store
                        ELSE CacheSet(got.store, cacheKey, result, CacheTtl, t,
                                      CacheMaxEntries),
              fetched |-> 1]
  IN  answer(IF options.force THEN [value |-> <<>>, store |-> store]
             ELSE CacheGet(store, cacheKey, t),
             quoteResultOf(routingConfig, intent, options.includeUnavailable, gw.quotes))

\* GeoPaySwitch.decideRoute: quote(), then the decision or NO_AVAILABLE_REGIONS.
decideRoute(store, intent, options, gw, t) ==
  LET routed(q, decision) ==
        IF decision = <<>>
          THEN [ok |-> FALSE, decision |-> <<>>,
                error |-> <<createError("NO_AVAILABLE_REGIONS", "none", <<>>, <<>>)>>,
                store |-> q.store, fetched |-> q.fetched]
        ELSE [ok |-> TRUE, decision |-> decision, error |-> <<>>,
              store |-> q.store, fetched |-> q.fetched]
      quoted(q) ==
        IF ~q.ok THEN [ok |-> FALSE, decision |-> <<>>, error |-> q.error,
                       store |-> q.store, fetched |-> q.fetched]
        ELSE routed(q, routeDecisionOf(q.result[1], routingConfig))
  IN  quoted(quote(store, intent, options, gw, t))

---------------------------------------------------------------------------
(* GeoPaySwitch.pay                                                        *)

\* maxAttempts with options.noFallback forgotten.
maxAttemptsIgnoringNoFallback(options, config) == config.fallback.maxTries

\* The dry-run check with the mode never recognised.
isDryRunNever(config) == FALSE

\* this.routingConfig.mode === "dry-run"
isDryRun(config) == config.mode = "dry-run"

maxAttemptsOf(options, config) ==
  IF options.noFallback THEN 1 ELSE config.fallback.maxTries

\* The router sent with the first attempt: the forced region's, when the
\* quote set has a quote for it, else the chosen one's.
firstRouterId(options, decision) ==
  LET qs == decision.quoteResult.quotes
      forcedQuote == FindFirst(qs, {q \in Range(qs) : q.region = options.forceRegion})
  IN  IF options.forceRegion # "" /\ forcedQuote # <<>>
      THEN forcedQuote[1].routerId
      ELSE decision.chosenRouterId

\* The earlier result of a pay() that returned for this caller-supplied key
\* and this intent, as a 0/1 sequence.
EarlierResult(options, intent) ==
  IF \E p \in paid : p.key = options.idempotencyKey /\ p.intent = intent
  THEN <<(CHOOSE p \in paid : p.key = options.idempotencyKey /\ p.intent = intent).result>>
  ELSE <<>>

\* The call returns or throws: the caller gets r, the frame is dropped.
Finish(r) ==
  /\ ret' = r
  /\ frame' = IdleFrame
  /\ callsLeft' = callsLeft - 1
  /\ paid' = IF r.op = "pay" /\ r.status = "ok" /\ r.options.idempotencyKey # NoKey
                /\ EarlierResult(r.options, r.intent) = <<>>
             THEN paid \cup {[key |-> r.options.idempotencyKey, intent |-> r.intent,
                              result |-> r.result[1]]}
             ELSE paid

PayThrow(f, error) ==
  Finish([op |-> "pay", intent |-> f.intent, options |-> f.options, status |-> "error",
          result |-> <<>>, error |-> <<error>>, attempts |-> f.attempts,
          sent |-> f.sent, fetched |-> f.fetched, replayOf |-> f.replayOf,
          decision |-> f.decision, maxAttempts |-> f.maxAttempts])

PayReturn(f, result) ==
  Finish([op |-> "pay", intent |-> f.intent, options |-> f.options, status |-> "ok",
          result |-> <<result>>, error |-> <<>>, attempts |-> f.attempts,
          sent |-> f.sent, fetched |-> f.fetched, replayOf |-> f.replayOf,
          decision |-> f.decision, maxAttempts |-> f.maxAttempts])

\* pay() up to its first gateway pay call: the dry-run check, the route
\* decision, the forced region and maxAttempts.
PayStart(intent, options, gw) ==
  /\ frame.pc = "idle"
  /\ callsLeft > 0
  /\ LET enter(f0, f1) ==
           IF ~(1 <= f1.maxAttempts)
             THEN PayThrow([f1 EXCEPT !.pc = "idle"],
                           createError("INTERNAL_ERROR", "attempts", <<>>, <<f1.attempts>>))
           ELSE /\ frame' = f1
                /\ ret' = NoRet
                /\ UNCHANGED <<paid, callsLeft>>
         decided(d, f0) ==
           /\ cacheStore' = d.store
           /\ IF ~d.ok THEN PayThrow(f0, d.error[1])
              ELSE IF isDryRun(routingConfig)
                THEN PayThrow(f0, createError("INTERNAL_ERROR", "decision", d.decision, <<>>))
              ELSE enter(f0,
                         [f0 EXCEPT
                            !.pc = "attempt",
                            !.currentRegion = IF options.forceRegion # ""
                                              THEN options.forceRegion
                                              ELSE d.decision[1].chosenRegion,
                            !.currentRouterId = firstRouterId(options, d.decision[1]),
                            !.maxAttempts = maxAttemptsOf(options, routingConfig),
                            !.attempt = 1])
         called(d) ==
           decided(d, [IdleFrame EXCEPT
                         !.intent = intent, !.options = options,
                         !.idempotencyKey = IF options.idempotencyKey # NoKey
                                            THEN options.idempotencyKey
                                            ELSE generateIdempotencyKey(callsLeft),
                         !.fetched = d.fetched,
                         !.replayOf = EarlierResult(options, intent),
                         !.decision = d.decision])
     IN  called(decideRoute(cacheStore, intent, NoQuoteOptions, gw, now))
  /\ UNCHANGED <<routingConfig, now, breaker, idemVars, cbVars, cacheVars,
              routingVars, httpVars>>

\* attempts.push left out of the catch block.
recordAttemptOnSuccess(f, out) ==
  IF out.ok
  THEN Append(f.attempts, [attemptNumber |-> f.attempt, region |-> f.currentRegion,
                           routerId |-> f.currentRouterId, status |-> "succeeded",
                           error |-> <<>>])
  ELSE f.attempts

\* attempts.push({attemptNumber: attempt, region, routerId, status, error}),
\* after the gateway call returned or threw.
recordAttempt(f, out) ==
  Append(f.attempts, [attemptNumber |-> f.attempt,
                      region |-> f.currentRegion,
                      routerId |-> f.currentRouterId,
                      status |-> IF out.ok THEN "succeeded" ELSE "failed",
                      error |-> IF ~out.ok /\ out.error[1].geoPay THEN out.error
                                ELSE <<>>])

\* The fallback test without the bound on the attempts.
shouldFallBackUnbounded(f, config, fallback) ==
  config.fallback.enabled /\ fallback # <<>>

\* attempt < maxAttempts && fallback?.enabled, and getNextFallback found a
\* quote: the loop goes on with it.
shouldFallBack(f, config, fallback) ==
  f.attempt < f.maxAttempts /\ config.fallback.enabled /\ fallback # <<>>

\* One turn of the loop: the gateway pay call of this attempt and what pay()
\* does with its outcome.
PayAttempt(out) ==
  /\ frame.pc = "attempt"
  /\ LET request == [intent |-> frame.intent, region |-> frame.currentRegion,
                     routerId |-> frame.currentRouterId,
                     idempotencyKey |-> <<frame.idempotencyKey, frame.attempt>>]
         geoPayError == IF ~out.ok /\ out.error[1].geoPay THEN out.error ELSE <<>>
         f1 == [frame EXCEPT
                  !.sent = Append(@, request),
                  !.attempts = recordAttempt(frame, out),
                  !.failedRegions = IF out.ok THEN @ ELSE @ \cup {frame.currentRegion}]
         fallback == getNextFallback(frame.decision[1].alternatives, f1.failedRegions)
     IN  IF out.ok
           THEN PayReturn(f1, [GatewayPaymentResult(request, out.status) EXCEPT
                                 !.intentId = request.intent.id] @@
                              [attempts |-> f1.attempts,
                               idempotencyKey |-> frame.idempotencyKey])
         ELSE IF geoPayError = <<>> \/ ~isRetryableError(geoPayError[1])
           THEN PayThrow(f1, out.error[1])
         ELSE IF shouldFallBack(frame, routingConfig, fallback)
           THEN /\ frame' = [f1 EXCEPT !.currentRegion = fallback[1].region,
                                       !.currentRouterId = fallback[1].routerId,
                                       !.attempt = frame.attempt + 1]
                /\ UNCHANGED <<ret, paid, callsLeft>>
         ELSE PayThrow(f1, out.error[1])
  /\ UNCHANGED <<routingConfig, cacheStore, now, breaker, idemVars, cbVars, cacheVars,
              routingVars, httpVars>>

\* A quote() call of its own.
QuoteCall(intent, options, gw) ==
  /\ frame.pc = "idle"
  /\ callsLeft > 0
  /\ LET returned(q) ==
           /\ cacheStore' = q.store
           /\ Finish([NoRet EXCEPT !.op = "quote", !.intent = intent, !.options = options,
                                   !.status = IF q.ok THEN "ok" ELSE "error",
                                   !.result = q.result, !.error = q.error,
                                   !.fetched = q.fetched])
     IN  returned(quote(cacheStore, intent, options, gw, now))
  /\ UNCHANGED <<routingConfig, now, breaker, idemVars, cbVars, cacheVars,
              routingVars, httpVars>>

\* An operator trips or resets the gateway's breaker by hand.
BreakerTrip ==
  /\ frame.pc = "idle"
  /\ breaker' = trip(breaker, now)
  /\ breaker' # breaker
  /\ UNCHANGED <<routingConfig, cacheStore, now, frame, ret, paid, callsLeft, idemVars, cbVars, cacheVars,
              routingVars, httpVars>>

BreakerReset ==
  /\ frame.pc = "idle"
  /\ breaker' = reset(breaker, now)
  /\ breaker' # breaker
  /\ UNCHANGED <<routingConfig, cacheStore, now, frame, ret, paid, callsLeft, idemVars, cbVars, cacheVars,
              routingVars, httpVars>>

---------------------------------------------------------------------------
(* IdempotencyManager (idempotency)                                        *)


Procs == 1..NumProcs
IdemKeys == {"k1"}

\* Request payloads: objects as their properties in insertion order.
Payloads ==
  {<<<<"amount", "5">>, <<"currency", "USD">>>>,
   <<<<"amount", "6">>, <<"currency", "USD">>>>}

\* What the fn handed to execute() does when invoked: resolve to a value
\* (undefined or an object) or reject.
FnBehaviours ==
  {[throws |-> FALSE, value |-> v] : v \in {UndefinedValue, "result"}}
  \cup {[throws |-> TRUE, value |-> "fn_error"]}

RECURSIVE JSONStringify(_)
\* JSON.stringify of an object: its properties in insertion order.
JSONStringify(data) ==
  IF data = <<>> THEN <<>>
  ELSE <<data[1][1], ":", data[1][2]>> \o
       (IF Len(data) > 1 THEN <<",">> ELSE <<>>) \o JSONStringify(Tail(data))

\* hashRequest: the SHA-256 digest of the string, taken to be free of
\* collisions.
hashRequest(data) == <<"sha256", JSONStringify(data)>>

\* MemoryStorage.get: the record as a 0/1 sequence, and the records it
\* leaves (an expired record is deleted).
StorageGet(records, key, t) ==
  IF records[key] = <<>> THEN [record |-> <<>>, records |-> records]
  ELSE IF t > records[key][1].expiresAt
    THEN [record |-> <<>>, records |-> [records EXCEPT ![key] = <<>>]]
  ELSE [record |-> records[key], records |-> records]

\* MemoryStorage.set
StorageSet(records, key, record) == [records EXCEPT ![key] = <<record>>]

\* check with the status of the record tested before its hash.
checkStatusFirst(existing, requestData, t) ==
  IF existing = <<>>
    THEN [error |-> "", canProceed |-> TRUE, existingResponse |-> UndefinedValue,
          record |-> <<>>]
  ELSE IF existing[1].status = "completed"
    THEN [error |-> "", canProceed |-> FALSE,
          existingResponse |-> existing[1].response, record |-> existing]
  ELSE IF existing[1].requestHash # hashRequest(requestData)
    THEN [error |-> "KEY_MISMATCH", canProceed |-> FALSE,
          existingResponse |-> UndefinedValue, record |-> existing]
  ELSE [error |-> "", canProceed |-> TRUE, existingResponse |-> UndefinedValue,
        record |-> existing]

\* check with the lock of a processing record left unread.
checkWithoutLock(existing, requestData, t) ==
  IF existing = <<>>
    THEN [error |-> "", canProceed |-> TRUE, existingResponse |-> UndefinedValue,
          record |-> <<>>]
  ELSE IF existing[1].requestHash # hashRequest(requestData)
    THEN [error |-> "KEY_MISMATCH", canProceed |-> FALSE,
          existingResponse |-> UndefinedValue, record |-> existing]
  ELSE IF existing[1].status = "completed"
    THEN [error |-> "", canProceed |-> FALSE,
          existingResponse |-> existing[1].response, record |-> existing]
  ELSE [error |-> "", canProceed |-> TRUE, existingResponse |-> UndefinedValue,
        record |-> existing]

\* IdempotencyManager.check on the record storage.get gave: what it returns
\* (error ""), or the code of the IdempotencyError it throws.
check(existing, requestData, t) ==
  IF existing = <<>>
    THEN [error |-> "", canProceed |-> TRUE, existingResponse |-> UndefinedValue,
          record |-> <<>>]
  ELSE IF existing[1].requestHash # hashRequest(requestData)
    THEN [error |-> "KEY_MISMATCH", canProceed |-> FALSE,
          existingResponse |-> UndefinedValue, record |-> existing]
  ELSE IF existing[1].status = "completed"
    THEN [error |-> "", canProceed |-> FALSE,
          existingResponse |-> existing[1].response, record |-> existing]
  ELSE IF existing[1].status = "failed"
    THEN [error |-> "", canProceed |-> TRUE, existingResponse |-> UndefinedValue,
          record |-> existing]
  ELSE IF existing[1].lockedUntil # Undefined /\ existing[1].lockedUntil # 0
          /\ t < existing[1].lockedUntil
    THEN [error |-> "IN_PROGRESS", canProceed |-> FALSE,
          existingResponse |-> UndefinedValue, record |-> existing]
  ELSE [error |-> "", canProceed |-> TRUE, existingResponse |-> UndefinedValue,
        record |-> existing]

\* The record startProcessing stores (createdAt and completedAt, which
\* nothing reads, are left out of the records).
startProcessing(requestData, t) ==
  [requestHash |-> hashRequest(requestData), status |-> "processing",
   response |-> UndefinedValue, expiresAt |-> t + IdemTtl,
   lockedUntil |-> t + IdemLockTimeout]

\* The record complete() and fail() store over the existing one.
Settled(existing, status, response, t) ==
  [existing EXCEPT !.status = status, !.response = response,
                   !.lockedUntil = Undefined]

\* The status of the record check() was given ("none" without a record).
FoundStatus(existing) == IF existing = <<>> THEN "none" ELSE existing[1].status

\* A caller without an execute() call in flight.  Of a call in flight:
\* found is the status of the record its check() found, value what its fn
\* settled with, existing the record complete() or fail() read.
IdleProc ==
  [pc |-> "idle", key |-> "", requestData |-> <<>>,
   fn |-> [throws |-> FALSE, value |-> UndefinedValue],
   found |-> "none", existing |-> <<>>, value |-> UndefinedValue]

\* No execute() call has finished yet.  Of a finished call: what its caller
\* got (outcome, value), whether it invoked fn, and what its check() had
\* answered (the error thrown, canProceed, existingResponse, the status of
\* the record found).
NoIdemRet ==
  [key |-> "", outcome |-> "none", value |-> UndefinedValue, ranFn |-> FALSE,
   error |-> "", canProceed |-> TRUE, existingResponse |-> UndefinedValue,
   found |-> "none"]

\* execute() ends in its check(): the error thrown, or the cached response
\* returned.
FinishedAtCheck(key, c) ==
  [key |-> key, outcome |-> IF c.error # "" THEN "threw" ELSE "returned",
   value |-> IF c.error # "" THEN c.error ELSE c.existingResponse,
   ranFn |-> FALSE, error |-> c.error, canProceed |-> c.canProceed,
   existingResponse |-> c.existingResponse, found |-> FoundStatus(c.record)]

\* execute() ends after fn: its check() had thrown nothing and returned no
\* response other than undefined, and canProceed unless the record found
\* was a completed one.
FinishedAfterFn(p, outcome) ==
  [key |-> idemProc[p].key, outcome |-> outcome, value |-> idemProc[p].value,
   ranFn |-> TRUE, error |-> "", canProceed |-> idemProc[p].found # "completed",
   existingResponse |-> UndefinedValue, found |-> idemProc[p].found]

ClientIdle == UNCHANGED <<clientVars, cbVars, cacheVars, routingVars, httpVars>>

\* A caller calls execute(key, requestData, fn).
ExecuteCall(p, key, requestData, fn) ==
  /\ idemProc[p].pc = "idle"
  /\ idemCalls < MaxExecutes
  /\ idemCalls' = idemCalls + 1
  /\ idemProc' = [idemProc EXCEPT ![p] =
       [IdleProc EXCEPT !.pc = "check", !.key = key, !.requestData = requestData,
                        !.fn = fn]]
  /\ UNCHANGED <<idemStore, idemRet, fnRuns, idemClock>>
  /\ ClientIdle

\* check() and startProcessing() of execute() as one indivisible step.
ExecuteCheckAndStart(p) ==
  /\ idemProc[p].pc = "check"
  /\ LET got == StorageGet(idemStore, idemProc[p].key, idemClock)
         c == check(got.record, idemProc[p].requestData, idemClock)
         ends == c.error # "" \/ (~c.canProceed /\ c.existingResponse # UndefinedValue)
     IN  /\ idemStore' =
              IF ends THEN got.records
              ELSE StorageSet(got.records, idemProc[p].key,
                              startProcessing(idemProc[p].requestData, idemClock))
         /\ idemProc' = [idemProc EXCEPT ![p] =
              IF ends THEN IdleProc
              ELSE [@ EXCEPT !.pc = "start", !.found = FoundStatus(c.record)]]
         /\ idemRet' = IF ends THEN FinishedAtCheck(idemProc[p].key, c) ELSE idemRet
  /\ UNCHANGED <<fnRuns, idemClock, idemCalls>>
  /\ ClientIdle

\* execute(): check(), then the replay test on what it returned.
ExecuteCheck(p) ==
  /\ idemProc[p].pc = "check"
  /\ LET got == StorageGet(idemStore, idemProc[p].key, idemClock)
         c == check(got.record, idemProc[p].requestData, idemClock)
         ends == c.error # "" \/ (~c.canProceed /\ c.existingResponse # UndefinedValue)
     IN  /\ idemStore' = got.records
         /\ idemProc' = [idemProc EXCEPT ![p] =
              IF ends THEN IdleProc
              ELSE [@ EXCEPT !.pc = "start", !.found = FoundStatus(c.record)]]
         /\ idemRet' = IF ends THEN FinishedAtCheck(idemProc[p].key, c) ELSE idemRet
  /\ UNCHANGED <<fnRuns, idemClock, idemCalls>>
  /\ ClientIdle

\* execute(): startProcessing(), the last use of requestData.
ExecuteStart(p) ==
  /\ idemProc[p].pc = "start"
  /\ idemStore' = StorageSet(idemStore, idemProc[p].key,
                             startProcessing(idemProc[p].requestData, idemClock))
  /\ idemProc' = [idemProc EXCEPT ![p] = [@ EXCEPT !.pc = "fn", !.requestData = <<>>]]
  /\ UNCHANGED <<idemRet, fnRuns, idemClock, idemCalls>>
  /\ ClientIdle

\* execute(): fn is invoked and settles (it is not used again).
ExecuteFn(p) ==
  /\ idemProc[p].pc = "fn"
  /\ fnRuns' = [fnRuns EXCEPT ![idemProc[p].key] = @ + 1]
  /\ idemProc' = [idemProc EXCEPT ![p] =
       [@ EXCEPT !.pc = IF idemProc[p].fn.throws THEN "fail" ELSE "complete",
                 !.value = idemProc[p].fn.value, !.fn = IdleProc.fn]]
  /\ UNCHANGED <<idemStore, idemRet, idemClock, idemCalls>>
  /\ ClientIdle

\* execute(): complete(key, result) up to its storage.get; when that finds
\* no record complete() throws NOT_FOUND, the catch block's fail() is run
\* with that error.
ExecuteComplete(p) ==
  /\ idemProc[p].pc = "complete"
  /\ LET got == StorageGet(idemStore, idemProc[p].key, idemClock)
     IN  /\ idemStore' = got.records
         /\ idemProc' = [idemProc EXCEPT ![p] =
              IF got.record = <<>>
              THEN [@ EXCEPT !.pc = "fail", !.value = "NOT_FOUND"]
              ELSE [@ EXCEPT !.pc = "completing", !.existing = got.record]]
  /\ UNCHANGED <<idemRet, fnRuns, idemClock, idemCalls>>
  /\ ClientIdle

\* execute(): complete()'s storage.set, and the return of fn's result.
ExecuteCompleted(p) ==
  /\ idemProc[p].pc = "completing"
  /\ idemStore' = StorageSet(idemStore, idemProc[p].key,
                    Settled(idemProc[p].existing[1], "completed", idemProc[p].value,
                            idemClock))
  /\ idemProc' = [idemProc EXCEPT ![p] = IdleProc]
  /\ idemRet' = FinishedAfterFn(p, "returned")
  /\ UNCHANGED <<fnRuns, idemClock, idemCalls>>
  /\ ClientIdle

\* execute(): fail(key, error) up to its storage.get; with no record fail()
\* returns and the error is rethrown.
ExecuteFail(p) ==
  /\ idemProc[p].pc = "fail"
  /\ LET got == StorageGet(idemStore, idemProc[p].key, idemClock)
     IN  /\ idemStore' = got.records
         /\ idemProc' = [idemProc EXCEPT ![p] =
              IF got.record = <<>> THEN IdleProc
              ELSE [@ EXCEPT !.pc = "failing", !.existing = got.record]]
         /\ idemRet' = IF got.record = <<>> THEN FinishedAfterFn(p, "threw")
                       ELSE idemRet
  /\ UNCHANGED <<fnRuns, idemClock, idemCalls>>
  /\ ClientIdle

\* execute(): fail()'s storage.set, and the rethrow.
ExecuteFailed(p) ==
  /\ idemProc[p].pc = "failing"
  /\ idemStore' = StorageSet(idemStore, idemProc[p].key,
                    Settled(idemProc[p].existing[1], "failed", idemProc[p].value,
                            idemClock))
  /\ idemProc' = [idemProc EXCEPT ![p] = IdleProc]
  /\ idemRet' = FinishedAfterFn(p, "threw")
  /\ UNCHANGED <<fnRuns, idemClock, idemCalls>>
  /\ ClientIdle

\* Time passes.
IdemTick ==
  /\ idemClock < MaxTime
  /\ idemClock' = idemClock + 1
  /\ UNCHANGED <<idemStore, idemProc, idemRet, fnRuns, idemCalls>>
  /\ ClientIdle

IdemInit ==
  /\ idemStore = [k \in IdemKeys |-> <<>>]
  /\ idemProc = [p \in Procs |-> IdleProc]
  /\ idemRet = NoIdemRet
  /\ fnRuns = [k \in IdemKeys |-> 0]
  /\ idemClock = 0
  /\ idemCalls = 0

\* A caller of CircuitBreaker.execute() with no call in flight.
IdleCaller == [pc |-> "idle", fn |-> ""]

\* No execute() call has finished yet.
NoCbRet == [outcome |-> "none", value |-> UndefinedValue, ranFn |-> FALSE]

\* The breaker's callers before any call; no callback fired yet.
CbIdleInit ==
  /\ cbProc = [p \in Procs |-> IdleCaller]
  /\ cbRet = NoCbRet
  /\ fired = <<>>
  /\ halfOpenSuccesses = 0
  /\ cbCalls = 0

\* A caller of Cache.getOrSet() with no call in flight.
IdleGetOrSet == [pc |-> "idle", key |-> "", ttlMs |-> Undefined]

\* No operation of the cache has finished yet.
NoCacheRet ==
  [op |-> "none", value |-> UndefinedValue, count |-> 0, evicted |-> {},
   threw |-> FALSE]

\* No set / get / get / prune sequence is under way.
NoRoundTrip ==
  [stage |-> 0, key |-> "", value |-> UndefinedValue, expiresAt |-> 0,
   first |-> UndefinedValue, second |-> UndefinedValue]

\* The cache of the client as GeoPaySwitch builds it; no operation made yet.
CacheIdleInit ==
  /\ cacheConfig = [ttlMs |-> CacheTtl, maxEntries |-> CacheMaxEntries]
  /\ cacheProc = [c \in CacheCallers |-> IdleGetOrSet]
  /\ cacheRet = NoCacheRet
  /\ roundTrip = NoRoundTrip

\* No routing function has been applied.
NoRouted ==
  [fn |-> "none", weights |-> DefaultWeights, passed |-> <<>>, filtered |-> <<>>,
   quotes |-> <<>>, best |-> <<>>, decision |-> <<>>, thrown |-> <<>>]

\* No quote list under test.
RoutingIdleInit ==
  /\ routingQuotes = <<>>
  /\ routingOut = NoRouted

\* No request has been answered.
HttpIdleInit ==
  /\ httpStatus = 0
  /\ httpThrown = <<>>

ClientInit ==
  /\ routingConfig \in RoutingConfigs
  /\ cacheStore = <<>>
  /\ now = 0
  /\ breaker = NewBreaker
  /\ frame = IdleFrame
  /\ ret = NoRet
  /\ paid = {}
  /\ callsLeft = MaxCalls

Init ==
  /\ ClientInit
  /\ IdemInit
  /\ cbConfig = DefaultBreakerConfig
  /\ CbIdleInit
  /\ CacheIdleInit
  /\ RoutingIdleInit
  /\ HttpIdleInit

Next ==
  \/ \E intent \in Intents, options \in PaymentOptionsSet, gw \in GetQuotesOutcomes :
       PayStart(intent, options, gw)
  \/ \E out \in ExecutePaymentOutcomes : PayAttempt(out)
  \/ \E intent \in Intents, options \in QuoteOptionsSet, gw \in GetQuotesOutcomes :
       QuoteCall(intent, options, gw)
  \/ BreakerTrip
  \/ BreakerReset

Spec == Init /\ [][Next]_vars

\* The client with a gateway whose pay call always returns or throws: the
\* turn of the loop that awaits it is taken eventually.
SpecPayLive ==
  Init /\ [][Next]_vars /\ WF_vars(\E out \in ExecutePaymentOutcomes : PayAttempt(out))

\* The IdempotencyManager on its own, beside a client that is left alone.
IdemSpecInit ==
  /\ IdemInit
  /\ ClientInit
  /\ cbConfig = DefaultBreakerConfig
  /\ CbIdleInit
  /\ CacheIdleInit
  /\ RoutingIdleInit
  /\ HttpIdleInit
  /\ routingConfig = RoutingConfig("auto", TRUE, MaxTries, "balanced")

IdemNext ==
  \/ \E p \in Procs, key \in IdemKeys, requestData \in Payloads, fn \in FnBehaviours :
       ExecuteCall(p, key, requestData, fn)
  \/ \E p \in Procs : ExecuteCheck(p)
  \/ \E p \in Procs : ExecuteStart(p)
  \/ \E p \in Procs : ExecuteFn(p)
  \/ \E p \in Procs : ExecuteComplete(p)
  \/ \E p \in Procs : ExecuteCompleted(p)
  \/ \E p \in Procs : ExecuteFail(p)
  \/ \E p \in Procs : ExecuteFailed(p)
  \/ IdemTick

SpecIdem == IdemSpecInit /\ [][IdemNext]_vars

---------------------------------------------------------------------------
(* CircuitBreaker: its operations as steps                                 *)

\* What the fn handed to CircuitBreaker.execute() does once invoked:
\* resolve, reject with an error, or reject with the kind of error
\* config.isFailure disregards.
CbFns == {"resolve", "error", "uncounted_error"}

\* The client and the idempotency manager are left alone.
OthersIdle ==
  UNCHANGED <<routingConfig, cacheStore, frame, ret, paid, callsLeft, idemVars,
              cacheVars, routingVars, httpVars>>

\* The history variable after a step from breaker `before` to `after` that
\* did or did not record a success: it counts while the breaker stays
\* half-open and is zero otherwise.
HalfOpenCount(before, after, success) ==
  IF before.state = "half-open" /\ after.state = "half-open"
    THEN IF success THEN halfOpenSuccesses + 1 ELSE halfOpenSuccesses
  ELSE 0

\* execute(fn) up to the await of fn(): the open-state test, the fallback,
\* the invocation of fn.
CbExecute(p, fn) ==
  /\ cbProc[p].pc = "idle"
  /\ cbCalls < MaxCbCalls
  /\ cbCalls' = cbCalls + 1
  /\ LET entered ==
           IF breaker.state = "open" /\ shouldAttemptReset(breaker, now)
             THEN transition(breaker, "half-open", now)
           ELSE still(breaker)
         shortCircuits ==
           breaker.state = "open" /\ ~shouldAttemptReset(breaker, now)
     IN  /\ breaker' = entered.breaker
         /\ fired' = entered.fired
         /\ halfOpenSuccesses' = HalfOpenCount(breaker, entered.breaker, FALSE)
         /\ cbProc' = [cbProc EXCEPT ![p] =
              IF shortCircuits THEN IdleCaller ELSE [pc |-> "fn", fn |-> fn]]
         /\ cbRet' =
              IF ~shortCircuits THEN cbRet
              ELSE IF cbConfig.fallback = "default"
                THEN [outcome |-> "threw", value |-> "CircuitOpenError",
                      ranFn |-> FALSE]
              ELSE [outcome |-> "returned", value |-> "fallback", ranFn |-> FALSE]
  /\ UNCHANGED <<now, cbConfig>>
  /\ OthersIdle

\* execute(fn) from the settling of fn(): recordSuccess or recordFailure,
\* then the return or the rethrow.
CbSettle(p) ==
  /\ cbProc[p].pc = "fn"
  /\ LET success == cbProc[p].fn = "resolve" \/ ~isFailure(cbProc[p].fn)
         recorded == IF success THEN recordSuccess(breaker, cbConfig, now)
                     ELSE recordFailure(breaker, cbConfig, now)
     IN  /\ breaker' = recorded.breaker
         /\ fired' = recorded.fired
         /\ halfOpenSuccesses' = HalfOpenCount(breaker, recorded.breaker, success)
  /\ cbProc' = [cbProc EXCEPT ![p] = IdleCaller]
  /\ cbRet' = [outcome |-> IF cbProc[p].fn = "resolve" THEN "returned" ELSE "threw",
               value |-> IF cbProc[p].fn = "resolve" THEN "result" ELSE cbProc[p].fn,
               ranFn |-> TRUE]
  /\ UNCHANGED <<now, cbConfig, cbCalls>>
  /\ OthersIdle

\* trip()
CbTrip ==
  /\ breaker' = trip(breaker, now)
  /\ fired' = transitionCallbacks(breaker, "open")
  /\ halfOpenSuccesses' = HalfOpenCount(breaker, breaker', FALSE)
  /\ UNCHANGED <<now, cbConfig, cbProc, cbRet, cbCalls>>
  /\ OthersIdle

\* reset()
CbReset ==
  /\ breaker' = reset(breaker, now)
  /\ fired' = transitionCallbacks(breaker, "closed")
  /\ halfOpenSuccesses' = HalfOpenCount(breaker, breaker', FALSE)
  /\ UNCHANGED <<now, cbConfig, cbProc, cbRet, cbCalls>>
  /\ OthersIdle

\* The half-open timer set by transitionTo("open") fires, resetTimeoutMs
\* after it was set or later.
CbTimer ==
  /\ breaker.timer
  /\ now >= breaker.openedAt + ResetTimeout
  /\ LET woken == IF breaker.state = "open"
                    THEN transition(breaker, "half-open", now)
                  ELSE still([breaker EXCEPT !.timer = FALSE])
     IN  /\ breaker' = woken.breaker
         /\ fired' = woken.fired
         /\ halfOpenSuccesses' = HalfOpenCount(breaker, woken.breaker, FALSE)
  /\ UNCHANGED <<now, cbConfig, cbProc, cbRet, cbCalls>>
  /\ OthersIdle

\* The monitor's interval callback.
CbMonitor ==
  /\ LET cleaned == [breaker EXCEPT !.calls = cleanupOldCalls(@, now)]
         woken == IF cleaned.state = "open" /\ shouldAttemptReset(cleaned, now)
                    THEN transition(cleaned, "half-open", now)
                  ELSE still(cleaned)
     IN  /\ breaker' = woken.breaker
         /\ fired' = woken.fired
         /\ halfOpenSuccesses' = HalfOpenCount(breaker, woken.breaker, FALSE)
  /\ UNCHANGED <<now, cbConfig, cbProc, cbRet, cbCalls>>
  /\ OthersIdle

\* Time passes.
CbTick ==
  /\ now < MaxNow
  /\ now' = now + 1
  /\ UNCHANGED <<breaker, cbVars>>
  /\ OthersIdle

\* A breaker just constructed, at a clock value above zero, beside a client
\* and an idempotency manager that are left alone.
BreakerSpecInit ==
  /\ routingConfig = RoutingConfig("auto", TRUE, MaxTries, "balanced")
  /\ cacheStore = <<>>
  /\ now = 1
  /\ breaker = NewBreaker
  /\ frame = IdleFrame
  /\ ret = NoRet
  /\ paid = {}
  /\ callsLeft = MaxCalls
  /\ IdemInit
  /\ cbConfig \in BreakerConfigs
  /\ CbIdleInit
  /\ CacheIdleInit
  /\ RoutingIdleInit
  /\ HttpIdleInit

BreakerNext ==
  \/ \E p \in Procs, fn \in CbFns : CbExecute(p, fn)
  \/ \E p \in Procs : CbSettle(p)
  \/ CbTrip
  \/ CbReset
  \/ CbTimer
  \/ CbMonitor
  \/ CbTick

SpecBreaker == BreakerSpecInit /\ [][BreakerNext]_vars

---------------------------------------------------------------------------
(* Cache: its operations as steps                                          *)

MaxCacheNow == 2     \* last clock tick of a behaviour of the cache

CacheKeyNames == {"a", "b"}
CacheValues == {"v1", "v2"}

\* The ttlMs argument of set() and getOrSet(): left out, or given.
CacheTtlArgs == {Undefined, CacheTtl + 1}

\* What the factory handed to getOrSet() does in the end: resolve to a
\* value, resolve to undefined, or reject.
CacheFactories == {"v1", UndefinedValue, "reject"}

\* The caches under test: new Cache({ttlMs, maxEntries}).
CacheConfigs ==
  {[ttlMs |-> CacheTtl, maxEntries |-> 1], [ttlMs |-> CacheTtl, maxEntries |-> 2]}

\* ttlMs ?? this.ttlMs
ttlOf(ttlMs) == IF ttlMs = Undefined THEN cacheConfig.ttlMs ELSE ttlMs

\* The client, the idempotency manager and the breaker are left alone.
CacheOnly ==
  UNCHANGED <<routingConfig, breaker, frame, ret, paid, callsLeft, idemVars, cbVars,
              cacheConfig, routingVars, httpVars>>

\* What a finished operation of the cache did.
CacheDid(op, value, count, evicted, threw) ==
  [op |-> op, value |-> value, count |-> count, evicted |-> evicted, threw |-> threw]

\* cache.set(key, value, ttlMs)
CacheSetOp(key, value, ttlMs) ==
  /\ cacheStore' =
       CacheSet(cacheStore, key, value, ttlOf(ttlMs), now, cacheConfig.maxEntries)
  /\ cacheRet' =
       CacheDid("set", UndefinedValue, 0,
                CacheKeys(cacheStore)
                  \ CacheKeys(CacheMakeRoom(cacheStore, now, cacheConfig.maxEntries)),
                FALSE)
  /\ roundTrip' = [NoRoundTrip EXCEPT !.stage = 1, !.key = key, !.value = value,
                                      !.expiresAt = now + ttlOf(ttlMs)]
  /\ UNCHANGED <<now, cacheProc>>
  /\ CacheOnly

\* cache.get(key)
CacheGetOp(key) ==
  /\ LET got == CacheGet(cacheStore, key, now)
     IN  /\ cacheStore' = got.store
         /\ cacheRet' = CacheDid("get", cacheGetResult(got), 0, {}, FALSE)
         /\ roundTrip' =
              IF roundTrip.stage = 1 /\ roundTrip.key = key /\ now < roundTrip.expiresAt
                THEN [roundTrip EXCEPT !.stage = 2, !.first = cacheGetResult(got)]
              ELSE IF roundTrip.stage = 2 /\ roundTrip.key = key
                      /\ now > roundTrip.expiresAt
                THEN [roundTrip EXCEPT !.stage = 3, !.second = cacheGetResult(got)]
              ELSE NoRoundTrip
  /\ UNCHANGED <<now, cacheProc>>
  /\ CacheOnly

\* cache.delete(key)
CacheDeleteOp(key) ==
  /\ cacheStore' = CacheDelete(cacheStore, key)
  /\ cacheRet' = CacheDid("delete",
                          IF CacheIndex(cacheStore, key) # 0 THEN "true" ELSE "false",
                          0, {}, FALSE)
  /\ roundTrip' = NoRoundTrip
  /\ UNCHANGED <<now, cacheProc>>
  /\ CacheOnly

\* cache.clear()
CacheClearOp ==
  /\ cacheStore' = <<>>
  /\ cacheRet' = CacheDid("clear", UndefinedValue, 0, {}, FALSE)
  /\ roundTrip' = NoRoundTrip
  /\ UNCHANGED <<now, cacheProc>>
  /\ CacheOnly

\* cache.prune()
CachePruneOp ==
  /\ cacheStore' = CachePrune(cacheStore, now)
  /\ cacheRet' =
       CacheDid("prune", UndefinedValue,
                Len(cacheStore) - Len(CachePrune(cacheStore, now)),
                CacheKeys(cacheStore) \ CacheKeys(CachePrune(cacheStore, now)), FALSE)
  /\ roundTrip' = IF roundTrip.stage = 3 THEN [roundTrip EXCEPT !.stage = 4]
                  ELSE NoRoundTrip
  /\ UNCHANGED <<now, cacheProc>>
  /\ CacheOnly

\* getOrSet(key, factory, ttlMs) up to the await: the get, the return of a
\* cached value, the invocation of factory.
CacheGetOrSetCall(c, key, ttlMs) ==
  /\ cacheProc[c].pc = "idle"
  /\ LET got == CacheGet(cacheStore, key, now)
         cached == cacheGetResult(got)
     IN  /\ cacheStore' = got.store
         /\ IF cached # UndefinedValue
              THEN /\ cacheRet' = CacheDid("getOrSet", cached, 0, {}, FALSE)
                   /\ cacheProc' = cacheProc
              ELSE /\ cacheRet' = cacheRet
                   /\ cacheProc' = [cacheProc EXCEPT ![c] =
                        [pc |-> "factory", key |-> key, ttlMs |-> ttlMs]]
  /\ roundTrip' = NoRoundTrip
  /\ UNCHANGED now
  /\ CacheOnly

\* getOrSet from the settling of factory(): the set and the return, or the
\* rejection passed on.
CacheFactorySettled(c, factory) ==
  /\ cacheProc[c].pc = "factory"
  /\ IF factory = "reject"
       THEN /\ cacheStore' = cacheStore
            /\ cacheRet' = CacheDid("getOrSet", "factory_error", 0, {}, TRUE)
       ELSE /\ cacheStore' =
                 CacheSet(cacheStore, cacheProc[c].key, factory,
                          ttlOf(cacheProc[c].ttlMs), now, cacheConfig.maxEntries)
            /\ cacheRet' =
                 CacheDid("getOrSet", factory, 0,
                          CacheKeys(cacheStore)
                            \ CacheKeys(CacheMakeRoom(cacheStore, now,
                                                      cacheConfig.maxEntries)),
                          FALSE)
  /\ cacheProc' = [cacheProc EXCEPT ![c] = IdleGetOrSet]
  /\ roundTrip' = NoRoundTrip
  /\ UNCHANGED now
  /\ CacheOnly

\* Time passes.
CacheTick ==
  /\ now < MaxCacheNow
  /\ now' = now + 1
  /\ UNCHANGED <<cacheStore, cacheProc, cacheRet, roundTrip>>
  /\ CacheOnly

\* A cache just constructed, beside a client, an idempotency manager and a
\* breaker that are left alone.
CacheSpecInit ==
  /\ routingConfig = RoutingConfig("auto", TRUE, MaxTries, "balanced")
  /\ cacheStore = <<>>
  /\ now = 0
  /\ breaker = NewBreaker
  /\ frame = IdleFrame
  /\ ret = NoRet
  /\ paid = {}
  /\ callsLeft = MaxCalls
  /\ IdemInit
  /\ cbConfig = DefaultBreakerConfig
  /\ CbIdleInit
  /\ cacheConfig \in CacheConfigs
  /\ cacheProc = [c \in CacheCallers |-> IdleGetOrSet]
  /\ cacheRet = NoCacheRet
  /\ roundTrip = NoRoundTrip
  /\ RoutingIdleInit
  /\ HttpIdleInit

CacheNext ==
  \/ \E key \in CacheKeyNames, value \in CacheValues, ttlMs \in CacheTtlArgs :
       CacheSetOp(key, value, ttlMs)
  \/ \E key \in CacheKeyNames : CacheGetOp(key)
  \/ \E key \in CacheKeyNames : CacheDeleteOp(key)
  \/ CacheClearOp
  \/ CachePruneOp
  \/ \E c \in CacheCallers, key \in CacheKeyNames, ttlMs \in CacheTtlArgs :
       CacheGetOrSetCall(c, key, ttlMs)
  \/ \E c \in CacheCallers, factory \in CacheFactories : CacheFactorySettled(c, factory)
  \/ CacheTick

SpecCache == CacheSpecInit /\ [][CacheNext]_vars

\* The client used for quotes alone, while time passes: quote() calls on
\* intents of several fingerprints, forced and not, over a clock that runs
\* past the cache's TTL.
MaxQuoteCalls == 3   \* quote() calls per behaviour

QuoteCallOptions == {o \in QuoteOptionsSet : ~o.includeUnavailable}

QuoteGatewayOutcomes ==
  {gw \in GetQuotesOutcomes : ~gw.ok \/ gw.quotes[1].region # "BR"}

QuoteSpecInit ==
  /\ routingConfig = RoutingConfig("auto", TRUE, MaxTries, "balanced")
  /\ cacheStore = <<>>
  /\ now = 0
  /\ breaker = NewBreaker
  /\ frame = IdleFrame
  /\ ret = NoRet
  /\ paid = {}
  /\ callsLeft = MaxQuoteCalls
  /\ IdemInit
  /\ cbConfig = DefaultBreakerConfig
  /\ CbIdleInit
  /\ CacheIdleInit
  /\ RoutingIdleInit
  /\ HttpIdleInit

QuoteNext ==
  \/ \E intent \in QuoteIntents, options \in QuoteCallOptions,
        gw \in QuoteGatewayOutcomes :
       QuoteCall(intent, options, gw)
  \/ CacheTick

SpecQuote == QuoteSpecInit /\ [][QuoteNext]_vars

---------------------------------------------------------------------------
(* Filter Engine, Scoring Engine and Strategy Decider applied to inputs    *)

MaxQuotes == 3       \* longest quote list handed to the routing functions

\* A RegionQuote with all its fields given.
RegionQuote(region, routerId, totalCost, successRate, latencyMs, available, limits, methods) ==
  [region |-> region, routerId |-> routerId, totalCost |-> totalCost,
   successRate |-> successRate, latencyMs |-> latencyMs, score |-> Rat(0, 1),
   available |-> available, limits |-> limits, supportedMethods |-> methods]

RegionLimits(min, max, remainingDaily) ==
  [min |-> min, max |-> max, remainingDaily |-> remainingDaily]

\* The quotes the lists are made of (the intent asks for 5 by card): two
\* that pass every gate of the filter, one of them cheap with a low success
\* rate; a second router of a region, its daily limit nearly used up; a slow
\* one with a minimum above the amount; an unavailable one that fails other
\* gates too; one that fails the last three gates; one that fails the last.
QuoteUniverse ==
  {RegionQuote("EU", "r_eu", 20, 50, Undefined, TRUE, RegionLimits(1, 10, Undefined), {}),
   RegionQuote("UK", "r_uk", 21, 95, Undefined, TRUE, RegionLimits(1, 10, Undefined),
               {"card"}),
   RegionQuote("EU", "r_eu2", 30, 90, 50, TRUE, RegionLimits(1, 10, 1), {}),
   RegionQuote("SG", "r_sg", 40, Undefined, 600, TRUE, RegionLimits(6, 10, 8), {}),
   RegionQuote("JP", "r_jp", 10, 99, Undefined, FALSE, RegionLimits(6, 10, Undefined),
               {"bank"}),
   RegionQuote("BR", "r_br", 15, 95, Undefined, TRUE, RegionLimits(1, 4, 3), {"bank"}),
   RegionQuote("UK", "r_uk2", 25, 85, Undefined, TRUE, RegionLimits(1, 10, Undefined),
               {"bank"})}

QuoteLists == UNION {[1..n -> QuoteUniverse] : n \in 0..MaxQuotes}

\* A routing configuration with its mode, pinned region, strategy and
\* region lists given.
RouteConfig(mode, pinnedRegion, strategy, allowedRegions, blockedRegions) ==
  [RoutingConfig(mode, TRUE, MaxTries, strategy) EXCEPT
     !.pinnedRegion = pinnedRegion,
     !.allowedRegions = allowedRegions,
     !.blockedRegions = blockedRegions]

\* The configurations under test: the region lists varied, then the mode,
\* the pinned region (JP has no available quote) and the strategy.
RouteConfigs ==
  {RouteConfig("auto", "", "balanced", a, b) :
     a \in {{}, {"EU", "UK"}}, b \in {{}, {"EU"}}}
  \cup {RouteConfig("auto", "", st, {}, {}) : st \in {"cheapest", "highest_success"}}
  \cup {RouteConfig("pinned", "EU", st, {}, {}) : st \in {"balanced", "cheapest"}}
  \cup {RouteConfig("pinned", "JP", "cheapest", {}, {})}

\* The weight triples scoreQuotes is called with, in hundredths: those of
\* the strategies, and triples outside [0, 1].
WeightTriples ==
  {[price |-> 100, success |-> 0, latency |-> 0],
   [price |-> 0, success |-> 100, latency |-> 0],
   DefaultWeights,
   [price |-> 200, success |-> 200, latency |-> 200],
   [price |-> -50, success |-> 0, latency |-> 0]}

\* The QuoteResult makeRouteDecision is handed.
QuoteResultOf(quotes) ==
  [intentId |-> ValidIntent.id, quotes |-> quotes, best |-> bestOf(quotes),
   fromCache |-> FALSE, warnings |-> 0]

\* Nothing but the result of the routing function changes.
RoutingOnly ==
  UNCHANGED <<clientVars, idemVars, cbVars, cacheVars, routingQuotes, httpVars>>

\* filterQuotes(quotes, intent, routingConfig), applied to the input once.
ApplyFilterQuotes ==
  /\ routingOut.fn = "none"
  /\ LET r == filterQuotes(routingQuotes, ValidIntent, routingConfig)
     IN  routingOut' = [NoRouted EXCEPT !.fn = "filterQuotes", !.passed = r.passed,
                                   !.filtered = r.filtered]
  /\ RoutingOnly

\* scoreQuotes(quotes, weights)
ApplyScoreQuotes(weights) ==
  /\ routingOut.fn = "none"
  /\ LET r == scoreQuotes(routingQuotes, weights)
     IN  routingOut' = [NoRouted EXCEPT !.fn = "scoreQuotes", !.weights = weights,
                                   !.quotes = r, !.best = bestOf(r)]
  /\ RoutingOnly

\* makeRouteDecision(quoteResult, intent, config), and what decideRoute
\* throws for its answer.
ApplyMakeRouteDecision ==
  /\ routingOut.fn = "none"
  /\ LET decision == makeRouteDecision(QuoteResultOf(routingQuotes), routingConfig)
     IN  routingOut' = [NoRouted EXCEPT
           !.fn = "makeRouteDecision",
           !.decision = decision,
           !.thrown = IF decision = <<>>
                      THEN <<createError("NO_AVAILABLE_REGIONS", "none", <<>>, <<>>)>>
                      ELSE <<>>]
  /\ RoutingOnly

\* Any quote list and any configuration, beside a client, an idempotency
\* manager, a breaker and a cache that are left alone.
RoutingSpecInit ==
  /\ routingConfig \in RouteConfigs
  /\ cacheStore = <<>>
  /\ now = 0
  /\ breaker = NewBreaker
  /\ frame = IdleFrame
  /\ ret = NoRet
  /\ paid = {}
  /\ callsLeft = MaxCalls
  /\ IdemInit
  /\ cbConfig = DefaultBreakerConfig
  /\ CbIdleInit
  /\ CacheIdleInit
  /\ routingQuotes \in QuoteLists
  /\ routingOut = NoRouted
  /\ HttpIdleInit

RoutingNext ==
  \/ ApplyFilterQuotes
  \/ \E weights \in WeightTriples : ApplyScoreQuotes(weights)
  \/ ApplyMakeRouteDecision

SpecRouting == RoutingSpecInit /\ [][RoutingNext]_vars

\* The breaker with its timers running: a setTimeout callback that is due is
\* run eventually, and the clock goes on (up to the last tick of the
\* behaviour).  The monitor gets no such guarantee: monitorIntervalMs <= 0
\* turns it off.
SpecBreakerLive ==
  BreakerSpecInit /\ [][BreakerNext]_vars /\ WF_vars(CbTimer) /\ WF_vars(CbTick)


---------------------------------------------------------------------------
(* Layer403Client.request: the gateway's HTTP status turned into an error  *)

\* The statuses a response may carry.
HttpStatuses == 100..599

\* Response.ok
responseOk(status) == 200 <= status /\ status <= 299

\* The response to a request has arrived with a JSON body: request returns
\* the data when the response is ok, and throws the GeoPayException of the
\* status otherwise.
RequestAnswered ==
  /\ httpThrown = <<>>
  /\ httpThrown' = IF responseOk(httpStatus) THEN <<>>
                   ELSE <<createError(httpStatusToErrorCode(httpStatus), "gateway",
                                      <<>>, <<>>)>>
  /\ httpThrown' # httpThrown
  /\ UNCHANGED <<clientVars, idemVars, cbVars, cacheVars, routingVars, httpStatus>>

\* A response of any status, beside a client, an idempotency manager, a
\* breaker, a cache and routing functions that are left alone.
HttpSpecInit ==
  /\ ClientInit
  /\ routingConfig = RoutingConfig("auto", TRUE, MaxTries, "balanced")
  /\ IdemInit
  /\ cbConfig = DefaultBreakerConfig
  /\ CbIdleInit
  /\ CacheIdleInit
  /\ RoutingIdleInit
  /\ httpStatus \in HttpStatuses
  /\ httpThrown = <<>>

HttpNext == RequestAnswered

SpecHttp == HttpSpecInit /\ [][HttpNext]_vars

---------------------------------------------------------------------------
(* Properties of GeoPaySwitch.pay and GeoPaySwitch.quote                   *)

\* The regions of an attempts log.
RegionsOf(attempts) == {attempts[i].region : i \in DOMAIN attempts}

\* The decision's ranking: the chosen quote, then the alternatives.
RankingOf(decision) ==
  <<[region |-> decision.chosenRegion, routerId |-> decision.chosenRouterId,
     available |-> TRUE]>>
  \o [i \in DOMAIN decision.alternatives |->
        [region |-> decision.alternatives[i].region,
         routerId |-> decision.alternatives[i].routerId,
         available |-> decision.alternatives[i].available]]

\* The position in the ranking of the quote an attempt went to (0: none).
PositionIn(ranking, attempt) ==
  IF \E i \in DOMAIN ranking :
       ranking[i].region = attempt.region /\ ranking[i].routerId = attempt.routerId
  THEN CHOOSE i \in DOMAIN ranking :
         /\ ranking[i].region = attempt.region /\ ranking[i].routerId = attempt.routerId
         /\ \A j \in 1..(i - 1) :
              ~(ranking[j].region = attempt.region /\ ranking[j].routerId = attempt.routerId)
  ELSE 0

\* C1: in every pay() call the number of executePayment requests sent never
\* exceeds maxAttempts (1 when options.noFallback is set, else
\* routing.fallback.maxTries), and it never exceeds 1 when
\* routing.fallback.enabled is false. While the call is about to send, the
\* number already sent is strictly below the bound.
C1_CallsWithinMaxAttempts ==
  /\ frame.pc = "attempt" =>
       /\ Len(frame.sent) < (IF frame.options.noFallback THEN 1
                             ELSE routingConfig.fallback.maxTries)
       /\ (~routingConfig.fallback.enabled => Len(frame.sent) = 0)
  /\ ret.op = "pay" =>
       /\ Len(ret.sent) <= (IF ret.options.noFallback THEN 1
                            ELSE routingConfig.fallback.maxTries)
       /\ (~routingConfig.fallback.enabled => Len(ret.sent) <= 1)

\* A pay() that stopped at maxTries = 2 after two retryable failures although
\* another alternative was left to try.
C1_Witness ==
  /\ ret.op = "pay" /\ ret.status = "error" /\ ~ret.options.noFallback
  /\ routingConfig.fallback.enabled /\ routingConfig.fallback.maxTries = 2
  /\ Len(ret.sent) = 2
  /\ ret.error[1].geoPay /\ ret.error[1].isRetryable
  /\ \E i \in DOMAIN ret.decision[1].alternatives :
       /\ ret.decision[1].alternatives[i].available
       /\ ret.decision[1].alternatives[i].region \notin RegionsOf(ret.attempts)

\* C2: when the gateway call of an attempt throws a non-retryable error (a
\* GeoPayException with isRetryable false, or a value that is no
\* GeoPayException), pay() ends in that step, having made this one call and
\* no further one, and throws that same error.
C2_NonRetryableAborts ==
  [][\A out \in ExecutePaymentOutcomes :
       (/\ PayAttempt(out)
        /\ ~out.ok
        /\ (~out.error[1].geoPay \/ ~out.error[1].isRetryable))
       => /\ frame'.pc = "idle"
          /\ ret'.op = "pay" /\ ret'.status = "error"
          /\ ret'.error = out.error
          /\ Len(ret'.sent) = Len(frame.sent) + 1]_vars

\* A pay() that threw PAYMENT_DECLINED after its first attempt, with
\* attempts and an alternative left.
C2_Witness ==
  /\ ret.op = "pay" /\ ret.status = "error"
  /\ ret.error[1].geoPay /\ ret.error[1].code = "PAYMENT_DECLINED"
  /\ Len(ret.sent) = 1 /\ ret.maxAttempts = MaxTries
  /\ routingConfig.fallback.enabled
  /\ \E i \in DOMAIN ret.decision[1].alternatives :
       /\ ret.decision[1].alternatives[i].available
       /\ ret.decision[1].alternatives[i].region \notin RegionsOf(ret.attempts)

\* C3: a pay() called with a caller-supplied idempotency key and an intent
\* for which an earlier pay() has returned a result returns that result and
\* sends no executePayment request.
C3_ReplayReturnsFirstResult ==
  /\ frame.pc = "attempt" => frame.replayOf = <<>>
  /\ (ret.op = "pay" /\ ret.replayOf # <<>>) =>
       /\ ret.status = "ok"
       /\ ret.result = ret.replayOf
       /\ ret.sent = <<>>

\* C4: while the breaker is open and its reset timeout has not elapsed, no
\* step of pay() sends an executePayment request; and a step in which the
\* gateway call fails adds a call record to the breaker.
C4_PayGoesThroughBreaker ==
  [][\A out \in ExecutePaymentOutcomes :
       PayAttempt(out) =>
         /\ ~(breaker.state = "open" /\ ~shouldAttemptReset(breaker, now))
         /\ (~out.ok => Len(breaker'.calls) = Len(breaker.calls) + 1)]_vars


\* The alternatives a fallback may go to: available, region not failed.
Eligible(alternatives, failed) ==
  {i \in DOMAIN alternatives :
     alternatives[i].available /\ alternatives[i].region \notin failed}

\* C5: when the gateway call of an attempt throws a retryable error while
\* attempts remain and fallback is enabled, pay() goes on, in that same
\* step, to the first of the decision's alternatives that is available and
\* whose region has not failed in this call, and throws the error just
\* caught when there is none; and no region is sent two requests within one
\* pay() call.
C5_FallbackToFirstUntriedAlternative ==
  /\ [](/\ \A i, j \in DOMAIN frame.sent :
             i # j => frame.sent[i].region # frame.sent[j].region
        /\ \A i, j \in DOMAIN ret.sent :
             i # j => ret.sent[i].region # ret.sent[j].region
        /\ frame.pc = "attempt" =>
             \A i \in DOMAIN frame.sent : frame.sent[i].region # frame.currentRegion)
  /\ [][\A out \in ExecutePaymentOutcomes :
          (/\ PayAttempt(out)
           /\ ~out.ok /\ out.error[1].geoPay /\ out.error[1].isRetryable
           /\ frame.attempt < frame.maxAttempts
           /\ routingConfig.fallback.enabled)
          => LET alternatives == frame.decision[1].alternatives
                 failed == RegionsOf(frame.attempts) \cup {frame.currentRegion}
                 eligible == Eligible(alternatives, failed)
                 first == CHOOSE i \in eligible : \A j \in eligible : i <= j
             IN  IF eligible = {}
                 THEN /\ frame'.pc = "idle"
                      /\ ret'.status = "error" /\ ret'.error = out.error
                 ELSE /\ frame'.pc = "attempt"
                      /\ frame'.attempt = frame.attempt + 1
                      /\ frame'.currentRegion = alternatives[first].region
                      /\ frame'.currentRouterId = alternatives[first].routerId
                      /\ Len(frame'.sent) = Len(frame.sent) + 1]_vars

\* A second attempt that skipped the first alternative of the decision.
C5_Witness ==
  /\ frame.pc = "attempt" /\ frame.attempt = 2
  /\ frame.attempts[1].status = "failed"
  /\ frame.decision[1].alternatives[1].region # frame.currentRegion

C7_FailureCarriesAttempts ==
  (ret.op = "pay" /\ ret.status = "error" /\ Len(ret.sent) >= 1)
  => /\ ret.error[1].geoPay
     /\ ret.error[1].attempts = <<ret.attempts>>

\* C8: pay() and quote() on an intent that validatePaymentIntent rejects
\* end with an error, having called neither getQuotes nor executePayment.
C8_InvalidIntentMakesNoGatewayCall ==
  /\ frame.pc = "attempt" => validatePaymentIntent(frame.intent) = {}
  /\ (ret.op \in {"pay", "quote"} /\ validatePaymentIntent(ret.intent) # {}) =>
       /\ ret.status = "error"
       /\ ret.fetched = 0
       /\ ret.sent = <<>>

\* C9: in dry-run mode pay() never gets to a gateway pay call: it always
\* throws, and when decideRoute gives a decision, the error thrown is an
\* INTERNAL_ERROR carrying that decision, which is the one auto mode makes
\* from the same quote result.
C9_DryRunNeverPays ==
  routingConfig.mode = "dry-run" =>
    /\ frame.pc = "idle"
    /\ ret.op = "pay" =>
         /\ ret.sent = <<>> /\ ret.attempts = <<>>
         /\ ret.status = "error"
         /\ ret.decision # <<>> =>
              /\ ret.error[1].geoPay /\ ret.error[1].code = "INTERNAL_ERROR"
              /\ ret.error[1].decision = ret.decision
              /\ ret.decision =
                   makeRouteDecision(ret.decision[1].quoteResult,
                                     [routingConfig EXCEPT !.mode = "auto"])

\* A dry-run pay() that threw the decision it had computed.
C9_Witness ==
  /\ routingConfig.mode = "dry-run"
  /\ ret.op = "pay" /\ ret.status = "error"
  /\ ret.fetched = 1
  /\ ret.error[1].detailKind = "decision"
  /\ ret.error[1].decision # <<>>
  /\ Len(ret.error[1].decision[1].alternatives) = 2


\* The attempts log and the requests sent agree: as many entries as gateway
\* pay calls, the i-th call with the key base-i, the i-th entry numbered i
\* with the region and router of the i-th call.
LogMatchesCalls(attempts, sent, base) ==
  /\ Len(attempts) = Len(sent)
  /\ \A i \in DOMAIN sent :
       /\ sent[i].idempotencyKey = <<base, i>>
       /\ attempts[i].attemptNumber = i
       /\ attempts[i].region = sent[i].region
       /\ attempts[i].routerId = sent[i].routerId
       /\ attempts[i].status \in {"succeeded", "failed"}

\* C32: the i-th gateway pay call of a pay() carries the idempotency key
\* baseKey-i, and exactly one PaymentAttempt numbered i, with the region and
\* router sent, is appended to the log for it, whether the call succeeds or
\* fails: the numbers are 1..n without gaps, the log is as long as the
\* number of gateway pay calls, and recorded entries are never changed.
C32_OneAttemptPerGatewayCall ==
  /\ [](/\ LogMatchesCalls(frame.attempts, frame.sent, frame.idempotencyKey)
        /\ ret.op = "pay" =>
             \E base \in {ret.options.idempotencyKey}
                         \cup {generateIdempotencyKey(n) : n \in 1..MaxCalls} :
               /\ ret.options.idempotencyKey # NoKey => base = ret.options.idempotencyKey
               /\ ret.status = "ok" => /\ base = ret.result[1].idempotencyKey
                                       /\ ret.result[1].attempts = ret.attempts
               /\ LogMatchesCalls(ret.attempts, ret.sent, base))
  /\ [][(frame.pc = "attempt" /\ frame' # frame)
        => LET n == Len(frame.attempts)
               log == IF frame'.pc = "attempt" THEN frame'.attempts ELSE ret'.attempts
               sent == IF frame'.pc = "attempt" THEN frame'.sent ELSE ret'.sent
           IN  /\ Len(log) = n + 1
               /\ SubSeq(log, 1, n) = frame.attempts
               /\ Len(sent) = n + 1
               /\ SubSeq(sent, 1, n) = frame.sent
               /\ sent[n + 1].region = frame.currentRegion
               /\ sent[n + 1].routerId = frame.currentRouterId
               /\ log[n + 1].status = "succeeded"
                    <=> (frame'.pc = "idle" /\ ret'.status = "ok")]_vars

\* A pay() with a caller-supplied key threw after three failed gateway
\* calls to three regions.
C32_Witness ==
  /\ ret.op = "pay" /\ ret.status = "error"
  /\ ret.options.idempotencyKey # NoKey
  /\ Len(ret.sent) = 3
  /\ \A i \in 1..3 : ret.attempts[i].status = "failed"
  /\ ret.sent[3].idempotencyKey = <<ret.options.idempotencyKey, 3>>
  /\ Cardinality(RegionsOf(ret.attempts)) = 3


\* C33: every pay() call terminates, given that every gateway call returns
\* or fails.  With maxAttempts >= 1 its loop ends in exactly one of two
\* ways: it returns the result of a successful attempt, or it rethrows the
\* error of its last failed attempt, which is non-retryable, or retryable
\* with the attempts or the alternatives exhausted (fallback switched off
\* leaves no alternative); it goes on otherwise.  The INTERNAL_ERROR
\* 'Payment failed after all attempts' is never raised.
C33_PayEndsInSuccessOrLastError ==
  /\ (frame.pc = "attempt") ~> (frame.pc = "idle" /\ ret.op = "pay")
  /\ [](/\ frame.pc = "attempt" => 1 <= frame.attempt /\ frame.attempt <= frame.maxAttempts
        /\ (ret.op = "pay" /\ ret.maxAttempts >= 1 /\ ret.status = "error")
             => ret.error[1].detailKind # "attempts")
  /\ [][(frame.pc = "attempt" /\ frame' # frame)
        => LET log == IF frame'.pc = "attempt" THEN frame'.attempts ELSE ret'.attempts
               last == log[Len(log)]
               retryable == last.error # <<>> /\ last.error[1].isRetryable
               exhausted ==
                 \/ frame.attempt = frame.maxAttempts
                 \/ ~routingConfig.fallback.enabled
                 \/ Eligible(frame.decision[1].alternatives,
                             RegionsOf(frame.attempts) \cup {frame.currentRegion}) = {}
           IN  /\ frame'.pc = "idle"
                    <=> (last.status = "succeeded" \/ ~retryable \/ exhausted)
               /\ frame'.pc = "idle"
                    => /\ ret'.op = "pay"
                       /\ ret'.status \in {"ok", "error"}
                       /\ ret'.status = "ok"
                            <=> /\ last.status = "succeeded"
                                /\ ret'.result # <<>>
                                /\ ret'.result[1].regionUsed = last.region
                                /\ ret'.result[1].routerId = last.routerId
                                /\ ret'.error = <<>>
                       /\ ret'.status = "error"
                            <=> /\ last.status = "failed"
                                /\ ret'.result = <<>>
                                /\ ret'.error # <<>>
                                /\ ret'.error[1].detailKind = "gateway"
                                    \/ ~ret'.error[1].geoPay
                                /\ last.error = IF ret'.error[1].geoPay THEN ret'.error
                                                ELSE <<>>]_vars

\* A pay() with maxTries = 2 threw the retryable error of its second
\* attempt although an alternative was left: the attempts were exhausted.
C33_Witness ==
  /\ ret.op = "pay" /\ ret.status = "error"
  /\ ret.maxAttempts = 2 /\ Len(ret.attempts) = 2
  /\ ret.error[1].geoPay /\ ret.error[1].code = "TIMEOUT"
  /\ ret.attempts[2].error = ret.error
  /\ Eligible(ret.decision[1].alternatives, RegionsOf(ret.attempts)) # {}


\* C34: every gateway response with an HTTP 5xx status is classified as
\* SERVICE_UNAVAILABLE, which is retryable, so that a 5xx failure of a
\* payment attempt drives the fallback; 408 and 429 are retryable too
\* (TIMEOUT, RATE_LIMITED), and 400, 401, 403 and 404 are non-retryable.
C34_ServerErrorsAreRetryable ==
  httpThrown # <<>>
  => /\ (500 <= httpStatus /\ httpStatus <= 599)
          => /\ httpThrown[1].code = "SERVICE_UNAVAILABLE"
             /\ isRetryableError(httpThrown[1])
     /\ httpStatus = 408
          => httpThrown[1].code = "TIMEOUT" /\ isRetryableError(httpThrown[1])
     /\ httpStatus = 429
          => httpThrown[1].code = "RATE_LIMITED" /\ isRetryableError(httpThrown[1])
     /\ httpStatus \in {400, 401, 403, 404} => ~isRetryableError(httpThrown[1])

\* The request goes to a region with the router of one of the decision's
\* quotes of that region.
RouterOfRegion(request, decision) ==
  \E q \in Range(decision.quoteResult.quotes) :
    q.region = request.region /\ q.routerId = request.routerId

\* C35: in every attempt of pay(), with options.forceRegion given or not,
\* the router id sent to the gateway is the routerId of a quote of the
\* region attempted, taken from the quote set of the decision: a forced
\* region is never sent with the router of another region.
C35_RouterBelongsToRegion ==
  /\ \A i \in DOMAIN frame.sent : RouterOfRegion(frame.sent[i], frame.decision[1])
  /\ frame.pc = "attempt"
       => RouterOfRegion([region |-> frame.currentRegion,
                          routerId |-> frame.currentRouterId], frame.decision[1])
  /\ ret.op = "pay"
       => \A i \in DOMAIN ret.sent : RouterOfRegion(ret.sent[i], ret.decision[1])

\* The region has, in the decision's quote set, a quote that passes every
\* gate of the filter for the intent and the routing configuration.
PassedFilter(region, decision, intent) ==
  \E q \in Range(decision.quoteResult.quotes) :
    q.region = region /\ checkQuote(q, intent, routingConfig) = "passed"

\* C36: every region decideRoute() chooses and every region pay() sends to
\* the gateway has passed the filter for the intent and the routing
\* configuration (available, allowed, not blocked, amount within the
\* limits, method supported), whatever the options (forceRegion,
\* includeUnavailable) and whether the quotes are fresh or cached.
C36_OnlyFilteredRegionsAreUsed ==
  /\ frame.pc = "attempt"
       => /\ PassedFilter(frame.decision[1].chosenRegion, frame.decision[1], frame.intent)
          /\ PassedFilter(frame.currentRegion, frame.decision[1], frame.intent)
  /\ (ret.op = "pay" /\ ret.decision # <<>>)
       => /\ PassedFilter(ret.decision[1].chosenRegion, ret.decision[1], ret.intent)
          /\ \A i \in DOMAIN ret.sent :
               PassedFilter(ret.sent[i].region, ret.decision[1], ret.intent)

\* C37: a QuoteResult served from the cache was computed under the same
\* request options: of two quote() calls on the same intent that differ in
\* includeUnavailable (force unset in both), the second never returns the
\* quote list the first one computed for its options.
C37_CachedQuotesMatchOptions ==
  [][(/\ ret.op = "quote" /\ ret.status = "ok" /\ ret.fetched = 1
      /\ ~ret.options.force
      /\ callsLeft' = callsLeft - 1
      /\ ret'.op = "quote" /\ ret'.status = "ok"
      /\ ret'.intent = ret.intent
      /\ ~ret'.options.force
      /\ ret'.options.includeUnavailable # ret.options.includeUnavailable)
     => ~(/\ ret'.result[1].fromCache
          /\ ret'.fetched = 0
          /\ ret'.result[1].quotes = ret.result[1].quotes)]_vars

\* The cache key quote() computes for an intent.
QuoteKeyOf(intent) ==
  createQuoteCacheKey(intent.id, intent.amount, intent.currency, intent.paymentMethod)

\* The unexpired entries of the store under a key at time t.
LiveEntries(store, key, t) ==
  {i \in DOMAIN store : store[i].key = key /\ ~(t > store[i].expiresAt)}

\* The unexpired entries under the intent's key that hold a result computed
\* for this intent (QuoteResult.intentId is the intent's id).
LiveEntriesOfIntent(store, intent, t) ==
  {i \in LiveEntries(store, QuoteKeyOf(intent), t) : store[i].value.intentId = intent.id}

\* What one quote() call does when the cache counts as hit iff hits is not
\* empty: the step from the state before the call to the state after it.
QuoteStepAgrees(hits) ==
  IF ~ret'.options.force
  THEN /\ (ret'.status = "ok" /\ ret'.result[1].fromCache /\ ret'.fetched = 0)
            <=> hits # {}
       /\ hits # {}
            => /\ \E i \in hits :
                    ret'.result[1] = [cacheStore[i].value EXCEPT !.fromCache = TRUE]
               /\ cacheStore' = cacheStore
       /\ hits = {}
            => /\ ret'.fetched = 1
               /\ ret'.status = "ok"
                    => /\ ~ret'.result[1].fromCache
                       /\ \E i \in DOMAIN cacheStore' :
                            /\ cacheStore'[i].key = QuoteKeyOf(ret'.intent)
                            /\ cacheStore'[i].value = ret'.result[1]
                            /\ cacheStore'[i].expiresAt = now + CacheTtl
  ELSE /\ ret'.fetched = 1
       /\ cacheStore' = cacheStore
       /\ ret'.status = "ok" => ~ret'.result[1].fromCache

\* C38: quote(intent) with force unset returns the cached QuoteResult with
\* fromCache = true and calls no gateway iff the cache holds an unexpired
\* entry for the intent's fingerprint (id, amount, currency, payment method);
\* otherwise it calls the gateway once and stores the result it returns.
\* With force = true the gateway is called and the cache is left as it was,
\* so the older entry is still there for a later quote that is not forced.
C38_QuoteCacheByFingerprint ==
  [][(callsLeft' = callsLeft - 1 /\ ret'.op = "quote")
     => QuoteStepAgrees(LiveEntriesOfIntent(cacheStore, ret'.intent, now))]_vars

---------------------------------------------------------------------------
(* Properties of the IdempotencyManager                                    *)

\* C10: when check() inside execute(key, payload, fn) finds an unexpired
\* completed record with the payload's hash, check() returns canProceed =
\* false with the stored response, and execute() returns that response
\* without invoking fn, whatever the stored response is: no call that found
\* such a record goes on to startProcessing().
C10_CompletedIsReplayed ==
  /\ \A p \in Procs :
       idemProc[p].pc \notin {"idle", "check"} => idemProc[p].found # "completed"
  /\ (idemRet.error = "" /\ idemRet.found = "completed")
       => /\ ~idemRet.canProceed
          /\ idemRet.outcome = "returned"
          /\ idemRet.value = idemRet.existingResponse
          /\ ~idemRet.ranFn

\* The unexpired record storage holds under the key of p's call, as a 0/1
\* sequence.
LiveRecord(p) == StorageGet(idemStore, idemProc[p].key, idemClock).record

\* The hash of the payload of p's call.
HashOf(p) == hashRequest(idemProc[p].requestData)

\* A step of p's call after check() let it through: from startProcessing()
\* the call goes on to fn, and there fn is invoked once.
GoesOnToFn(p) ==
  /\ (idemProc[p].pc = "start" /\ idemProc'[p] # idemProc[p])
       => idemProc'[p].pc = "fn"
  /\ (idemProc[p].pc = "fn" /\ idemProc'[p] # idemProc[p])
       => /\ idemProc'[p].pc \in {"complete", "fail"}
          /\ fnRuns'[idemProc[p].key] = fnRuns[idemProc[p].key] + 1

\* C11: when check() inside execute(key, payload, fn) finds an unexpired
\* record, of any status, whose hash differs from the payload's, the call
\* ends with KEY_MISMATCH: no cached response is returned, fn is not
\* invoked, and the stored record is left as it was.
C11_HashMismatchIsRaised ==
  [][\A p \in Procs :
       (/\ ExecuteCheck(p)
        /\ LiveRecord(p) # <<>>
        /\ LiveRecord(p)[1].requestHash # HashOf(p))
       => /\ idemProc'[p].pc = "idle"
          /\ idemRet'.outcome = "threw"
          /\ idemRet'.value = "KEY_MISMATCH"
          /\ ~idemRet'.ranFn
          /\ fnRuns' = fnRuns
          /\ idemStore' = idemStore]_vars

\* A call was refused with KEY_MISMATCH against a completed record that is
\* still stored.
C11_Witness ==
  /\ idemRet.outcome = "threw"
  /\ idemRet.value = "KEY_MISMATCH"
  /\ idemRet.found = "completed"
  /\ idemStore[idemRet.key] # <<>>
  /\ idemStore[idemRet.key][1].status = "completed"
  /\ idemClock <= idemStore[idemRet.key][1].expiresAt

\* C12: within one TTL window a completed record is never overwritten:
\* at every step of any interleaving of execute() calls a record that is
\* completed and has not expired stays stored, stays completed and keeps
\* its cached response.
C12_CompletedIsNeverOverwritten ==
  [][\A k \in IdemKeys :
       (/\ idemStore[k] # <<>>
        /\ idemClock <= idemStore[k][1].expiresAt
        /\ idemStore[k][1].status = "completed")
       => /\ idemStore'[k] # <<>>
          /\ idemStore'[k][1].status = "completed"
          /\ idemStore'[k][1].response = idemStore[k][1].response]_vars

\* C13: when check() inside execute() finds an unexpired record with the
\* payload's hash: processing with a lock still in the future ends the call
\* with IN_PROGRESS and fn not invoked; processing with the lock expired, or
\* failed, makes check() return canProceed = true (the call goes on), and
\* a call let through on such a record runs startProcessing() and then fn.
C13_LockGuardsProcessing ==
  /\ [][\A p \in Procs :
          (/\ ExecuteCheck(p)
           /\ LiveRecord(p) # <<>>
           /\ LiveRecord(p)[1].requestHash = HashOf(p))
          => /\ (/\ LiveRecord(p)[1].status = "processing"
                 /\ idemClock < LiveRecord(p)[1].lockedUntil)
                => /\ idemProc'[p].pc = "idle"
                   /\ idemRet'.outcome = "threw"
                   /\ idemRet'.value = "IN_PROGRESS"
                   /\ ~idemRet'.ranFn
                   /\ fnRuns' = fnRuns
             /\ (\/ LiveRecord(p)[1].status = "failed"
                 \/ /\ LiveRecord(p)[1].status = "processing"
                    /\ idemClock >= LiveRecord(p)[1].lockedUntil)
                => /\ idemProc'[p].pc = "start"
                   /\ idemProc'[p].found = LiveRecord(p)[1].status
                   /\ idemRet' = idemRet]_vars
  /\ [][\A p \in Procs :
          idemProc[p].found \in {"processing", "failed"} => GoesOnToFn(p)]_vars

\* A call let through on a processing record whose lock had expired has
\* run fn again and ended.
C13_Witness ==
  /\ idemRet.outcome # "none"
  /\ idemRet.error = ""
  /\ idemRet.found = "processing"
  /\ idemRet.ranFn
  /\ fnRuns[idemRet.key] >= 2

\* C14: check() on a key without a record lets the call proceed and leaves
\* the key without a record, so a second call that checks before the first
\* has done startProcessing() is let through too; every call that found no
\* record goes on to invoke fn and none of them ends with IN_PROGRESS.
C14_ConcurrentCallsBothProceed ==
  /\ [][\A p \in Procs :
          (ExecuteCheck(p) /\ LiveRecord(p) = <<>>)
          => /\ idemProc'[p].pc = "start"
             /\ idemProc'[p].found = "none"
             /\ idemRet' = idemRet
             /\ idemStore'[idemProc[p].key] = <<>>]_vars
  /\ [][\A p \in Procs :
          (idemProc[p].pc \in {"start", "fn"} /\ idemProc[p].found = "none")
          => GoesOnToFn(p)]_vars
  /\ []((/\ idemRet.outcome # "none"
         /\ idemRet.error = ""
         /\ idemRet.found = "none")
        => /\ idemRet.ranFn
           /\ idemRet.value # "IN_PROGRESS")

\* Two calls on one key, neither having found a record and no time having
\* passed, have both run fn.
C14_Witness ==
  \E p, q \in Procs :
    /\ p # q
    /\ idemClock = 0
    /\ \A r \in {p, q} :
         /\ idemProc[r].pc \in {"complete", "fail"}
         /\ idemProc[r].found = "none"
    /\ idemProc[p].key = idemProc[q].key
    /\ fnRuns[idemProc[p].key] = 2

---------------------------------------------------------------------------
(* Properties of the CircuitBreaker                                        *)

\* The call in flight of caller p settles as a failure: fn rejected with an
\* error config.isFailure counts.
SettlesAsFailure(p) == cbProc[p].fn # "resolve" /\ isFailure(cbProc[p].fn)

\* The failure records of calls dated inside the rolling window at t, and
\* one recorded at t.
FailuresInWindow(calls, t) ==
  Cardinality({i \in DOMAIN calls :
                 ~calls[i].success /\ calls[i].timestamp >= t - RollingWindow}) + 1

\* The breaker is open and less than resetTimeoutMs has passed since it opened.
OpenAndWaiting ==
  /\ breaker.state = "open"
  /\ breaker.openedAt # Undefined
  /\ now - breaker.openedAt < ResetTimeout

\* The breaker is open and resetTimeoutMs has passed since it opened.
OpenAndDue ==
  /\ breaker.state = "open"
  /\ breaker.openedAt # Undefined
  /\ now - breaker.openedAt >= ResetTimeout

\* C15: while the breaker is closed, recording a failure opens it if and
\* only if the failure records dated inside the rolling window, the new one
\* included, number at least failureThreshold; older failure records do not
\* count.
C15_OpensAtThresholdInWindow ==
  [][\A p \in Procs :
       (CbSettle(p) /\ SettlesAsFailure(p) /\ breaker.state = "closed")
       => (breaker'.state = "open"
             <=> FailuresInWindow(breaker.calls, now) >= cbConfig.failureThreshold)]_vars

\* With failureThreshold 2, two failures in a row were recorded on a closed
\* breaker that is still closed: the earlier one had left the window.
C15_Witness ==
  /\ breaker.state = "closed"
  /\ cbConfig.failureThreshold = 2
  /\ breaker.consecutiveFailures = 2
  /\ cbRet.value = "error"
  /\ failuresOf(breaker.calls) = 1

\* C16: while the breaker is open and less than resetTimeoutMs has passed
\* since it opened, execute(fn) does not invoke fn, gives its caller the
\* configured fallback (by default it throws CircuitOpenError), and leaves
\* the breaker's state, call records and counters as they were.
C16_OpenShortCircuits ==
  [][\A p \in Procs, fn \in CbFns :
       (CbExecute(p, fn) /\ OpenAndWaiting)
       => /\ cbProc'[p].pc = "idle"
          /\ ~cbRet'.ranFn
          /\ IF cbConfig.fallback = "default"
               THEN cbRet'.outcome = "threw" /\ cbRet'.value = "CircuitOpenError"
             ELSE cbRet'.outcome = "returned" /\ cbRet'.value = "fallback"
          /\ breaker' = breaker]_vars

\* A call was short-circuited with CircuitOpenError on an open breaker that
\* holds call records and whose reset timeout has not elapsed.
C16_Witness ==
  /\ OpenAndWaiting
  /\ breaker.calls # <<>>
  /\ cbRet.outcome = "threw"
  /\ cbRet.value = "CircuitOpenError"
  /\ ~cbRet.ranFn

\* C17: an execute() call on a breaker that is half-open, or open with
\* resetTimeoutMs elapsed since it opened, leaves it half-open and invokes
\* fn without short-circuiting; and while less than resetTimeoutMs has
\* elapsed only reset() moves the breaker out of open.
C17_HalfOpenAfterResetTimeout ==
  [][/\ \A p \in Procs, fn \in CbFns :
          (CbExecute(p, fn) /\ (breaker.state = "half-open" \/ OpenAndDue))
          => /\ breaker'.state = "half-open"
             /\ cbProc'[p] = [pc |-> "fn", fn |-> fn]
             /\ cbRet' = cbRet
     /\ (OpenAndWaiting /\ breaker'.state # "open")
          => /\ breaker' = reset(breaker, now)
             /\ now' = now]_vars

\* The first call made is in flight on a breaker that has just turned
\* half-open.
C17_Witness ==
  /\ breaker.state = "half-open"
  /\ fired = <<"onHalfOpen">>
  /\ cbCalls = 1
  /\ \E p \in Procs : cbProc[p].pc = "fn"
  /\ now - breaker.openedAt >= ResetTimeout

\* C18: a half-open breaker is closed by a recorded success only when, that
\* success included, successThreshold successes have been recorded since it
\* became half-open.
C18_ClosesAfterThresholdInHalfOpen ==
  [][\A p \in Procs :
       (CbSettle(p) /\ breaker.state = "half-open" /\ breaker'.state = "closed")
       => halfOpenSuccesses + 1 >= cbConfig.successThreshold]_vars

\* C19: a failure recorded while the breaker is half-open opens it in the
\* same step, whatever failureThreshold and the successes recorded before,
\* and the reset timeout runs anew from that moment.
C19_HalfOpenFailureReopens ==
  [][\A p \in Procs :
       (CbSettle(p) /\ SettlesAsFailure(p) /\ breaker.state = "half-open")
       => /\ breaker'.state = "open"
          /\ breaker'.openedAt = now
          /\ breaker'.timer
          /\ ~shouldAttemptReset(breaker', now)]_vars

\* A breaker opened at this moment by a failure, with fewer failure records
\* than failureThreshold and a success record beside them.
C19_Witness ==
  /\ breaker.state = "open"
  /\ breaker.openedAt = now
  /\ fired = <<"onOpen">>
  /\ cbRet.value = "error"
  /\ failuresOf(breaker.calls) < cbConfig.failureThreshold
  /\ \E i \in DOMAIN breaker.calls : breaker.calls[i].success

\* C20: an operation of the breaker (execute, the settling of a call,
\* trip, reset, the timer, the monitor) that changes its state fires exactly
\* one callback, that of the new state, and one that leaves the state as it
\* is fires none.
C20_OneCallbackPerStateChange ==
  [][~CbTick
       => IF breaker'.state # breaker.state
            THEN fired' = <<CallbackOf(breaker'.state)>>
          ELSE fired' = <<>>]_vars

\* An operation on an open breaker that changed nothing fired no callback.
C20_Witness ==
  /\ breaker.state = "open"
  /\ fired = <<>>
  /\ cbCalls = 0
  /\ now = 1

RECURSIVE SuccessesRecorded(_, _)
\* The breaker after n more successes are recorded on cb.
SuccessesRecorded(cb, n) ==
  IF n = 0 THEN cb
  ELSE SuccessesRecorded(recordSuccess(cb, cbConfig, now).breaker, n - 1)

\* C21: no state of the breaker is terminal.  A breaker that is open at a
\* moment from which resetTimeoutMs can still pass leaves open eventually
\* even if no call is made, and a breaker leaves open only for half-open,
\* or for closed by reset(); from every half-open breaker one recorded
\* failure leads to open and successThreshold recorded successes lead to
\* closed.
C21_NoTerminalState ==
  /\ (breaker.state = "open" /\ breaker.openedAt + ResetTimeout <= MaxNow)
       ~> (breaker.state # "open")
  /\ [][(breaker.state = "open" /\ breaker'.state # "open")
          => \/ breaker'.state = "half-open"
             \/ breaker' = reset(breaker, now)]_vars
  /\ [](breaker.state = "half-open"
          => /\ recordFailure(breaker, cbConfig, now).breaker.state = "open"
             /\ SuccessesRecorded(breaker, cbConfig.successThreshold).state = "closed")

\* A breaker tripped by hand became half-open with no call ever made.
C21_Witness ==
  /\ breaker.state = "half-open"
  /\ fired = <<"onHalfOpen">>
  /\ cbCalls = 0
  /\ breaker.calls = <<>>

\* The failure records whose timestamp lies inside the rolling window at t.
WindowFailures(calls, t) ==
  {i \in DOMAIN calls : ~calls[i].success /\ calls[i].timestamp >= t - RollingWindow}

\* C39: whenever the breaker is closed, fewer than failureThreshold failure
\* records lie inside the rolling window; so a breaker that has just closed
\* from half-open needs failureThreshold new failures to open again.
C39_ClosedBelowFailureThreshold ==
  breaker.state = "closed"
    => Cardinality(WindowFailures(breaker.calls, now)) < cbConfig.failureThreshold

\* Caller p's fn() has thrown an error config.isFailure does not count, and
\* this step is execute() settling it.
SettlesUncounted(p) ==
  /\ cbProc[p].pc = "fn"
  /\ cbProc[p].fn = "uncounted_error"
  /\ cbProc'[p].pc = "idle"

\* C40: an error thrown by fn that config.isFailure does not count is
\* rethrown to the caller and recorded as a success: the record pushed is a
\* success and no failure record is added, consecutiveFailures becomes 0,
\* consecutiveSuccesses grows by one, the breaker does not open, and in
\* half-open the call counts toward successThreshold: the breaker closes
\* (firing onClose) iff the count has reached it.
C40_UncountedErrorIsRecordedAsSuccess ==
  [][\A p \in Procs :
       SettlesUncounted(p)
         => /\ cbRet' = [outcome |-> "threw", value |-> cbProc[p].fn, ranFn |-> TRUE]
            /\ breaker'.calls # <<>>
            /\ breaker'.calls[Len(breaker'.calls)] = [timestamp |-> now, success |-> TRUE]
            /\ failuresOf(breaker'.calls) <= failuresOf(breaker.calls)
            /\ breaker'.consecutiveFailures = 0
            /\ breaker'.consecutiveSuccesses = breaker.consecutiveSuccesses + 1
            /\ breaker'.state # "open" \/ breaker.state = "open"
            /\ breaker.state = "closed" => breaker'.state = "closed"
            /\ breaker.state = "half-open"
                 => IF breaker.consecutiveSuccesses + 1 >= cbConfig.successThreshold
                    THEN breaker'.state = "closed" /\ fired' = <<"onClose">>
                    ELSE breaker'.state = "half-open" /\ fired' = <<>>]_vars

\* An error that is not counted has just closed a half-open breaker.
C40_Witness ==
  /\ cbRet = [outcome |-> "threw", value |-> "uncounted_error", ranFn |-> TRUE]
  /\ fired = <<"onClose">>
  /\ breaker.state = "closed"
  /\ breaker.calls # <<>>
  /\ breaker.calls[Len(breaker.calls)] = [timestamp |-> now, success |-> TRUE]
  /\ breaker.consecutiveSuccesses >= cbConfig.successThreshold

---------------------------------------------------------------------------
(* Properties of the Cache                                                 *)

\* The keys of the entries of a store that have expired at time t.
ExpiredKeys(store, t) == {store[i].key : i \in {j \in DOMAIN store : t > store[j].expiresAt}}

\* The key of the entry with the smallest createdAt, the first inserted
\* among equals.
OldestKey(store) ==
  store[CHOOSE i \in DOMAIN store :
          /\ \A j \in DOMAIN store : store[i].createdAt <= store[j].createdAt
          /\ \A j \in 1..(i - 1) : store[j].createdAt # store[i].createdAt].key

\* This step is a set() of key: cache.set itself (the step that starts a
\* round trip at this very time), or the set at the end of a getOrSet whose
\* factory resolved.
IsSetOf(key) ==
  \/ /\ cacheRet'.op = "set"
     /\ roundTrip'.stage = 1
     /\ roundTrip'.key = key
     /\ now' = now
  \/ /\ cacheRet'.op = "getOrSet"
     /\ ~cacheRet'.threw
     /\ \E c \in CacheCallers :
          /\ cacheProc[c].pc = "factory"
          /\ cacheProc'[c].pc = "idle"
          /\ cacheProc[c].key = key

\* C22 as stated: in the sequence set(k, v, ttl), get(k) before ttl
\* elapses, get(k) after ttl elapses, prune(), the first get returns v, the
\* second returns absent without throwing, and the prune() removes the entry
\* for k and returns a count of at least 1.
C22_PruneRemovesAfterExpiredGet ==
  /\ roundTrip.stage >= 2 => roundTrip.first = roundTrip.value
  /\ roundTrip.stage >= 3 => roundTrip.second = UndefinedValue /\ ~cacheRet.threw
  /\ roundTrip.stage = 4 => roundTrip.key \in cacheRet.evicted /\ cacheRet.count >= 1

\* C22, amended: in that sequence the first get returns v; the second
\* returns absent without throwing and itself removes the entry for k, so
\* the prune() that follows finds no entry for k and counts only the other
\* expired entries; a prune() made after ttl elapsed with no get(k) since
\* removes the entry for k and returns a count of at least 1.
C22_ExpiredGetRemovesEntry ==
  /\ [](roundTrip.stage >= 2 => roundTrip.first = roundTrip.value)
  /\ [](roundTrip.stage >= 3
          => /\ roundTrip.second = UndefinedValue
             /\ ~cacheRet.threw
             /\ roundTrip.key \notin CacheKeys(cacheStore))
  /\ [](roundTrip.stage = 4
          => /\ roundTrip.key \notin cacheRet.evicted
             /\ cacheRet.count = Cardinality(cacheRet.evicted))
  /\ [][(CachePruneOp /\ roundTrip.stage \in {1, 2} /\ now > roundTrip.expiresAt)
          => /\ roundTrip.key \in cacheRet'.evicted
             /\ cacheRet'.count >= 1
             /\ roundTrip.key \notin CacheKeys(cacheStore')]_vars

\* The whole sequence was run and its prune() found nothing to remove.
C22_Witness ==
  /\ roundTrip.stage = 4
  /\ roundTrip.first = roundTrip.value
  /\ roundTrip.second = UndefinedValue
  /\ cacheRet.op = "prune"
  /\ cacheRet.count = 0

\* C23: whatever set, get, getOrSet, delete, prune and clear calls were
\* made on a cache built with maxEntries >= 1, it stores at most maxEntries
\* entries (one per key).
C23_SizeWithinMaxEntries ==
  /\ Len(cacheStore) <= cacheConfig.maxEntries
  /\ Cardinality(CacheKeys(cacheStore)) = Len(cacheStore)

\* A set() on a full cache of two entries evicted one and left it full.
C23_Witness ==
  /\ cacheConfig.maxEntries = 2
  /\ Len(cacheStore) = 2
  /\ cacheRet.op = "set"
  /\ cacheRet.evicted # {}

\* C24 as stated: set() removes entries other than the one it writes
\* exactly when the store holds maxEntries entries at the call; it then
\* removes every expired entry, and only if none was expired exactly one
\* entry, the one with the smallest createdAt.
C24_EvictsOthersExactlyAtCapacity ==
  [][\A key \in CacheKeyNames :
       IsSetOf(key)
       => LET full == Len(cacheStore) >= cacheConfig.maxEntries
              expired == ExpiredKeys(cacheStore, now)
          IN  /\ (cacheRet'.evicted \ {key} # {}) <=> full
              /\ full => IF expired # {} THEN cacheRet'.evicted = expired
                         ELSE cacheRet'.evicted = {OldestKey(cacheStore)}
              /\ CacheKeys(cacheStore')
                   = (CacheKeys(cacheStore) \ cacheRet'.evicted) \cup {key}]_vars

\* C24, amended: set() removes entries exactly when the store holds
\* maxEntries entries at the call (the entries removed may be no other than
\* the old entry of the key it writes); it then removes every expired
\* entry, and only if none was expired exactly one entry, the one with the
\* smallest createdAt; so no unexpired entry is evicted while an expired one
\* is in the store.
C24_EvictsExactlyAtCapacity ==
  [][\A key \in CacheKeyNames :
       IsSetOf(key)
       => LET full == Len(cacheStore) >= cacheConfig.maxEntries
              expired == ExpiredKeys(cacheStore, now)
          IN  /\ (cacheRet'.evicted # {}) <=> full
              /\ full => IF expired # {} THEN cacheRet'.evicted = expired
                         ELSE cacheRet'.evicted = {OldestKey(cacheStore)}
              /\ CacheKeys(cacheStore')
                   = (CacheKeys(cacheStore) \ cacheRet'.evicted) \cup {key}]_vars

\* A set() on a full cache of two entries evicted the entry of the other
\* key, which had not expired, and wrote its own.
C24_Witness ==
  /\ cacheConfig.maxEntries = 2
  /\ cacheRet.op = "set"
  /\ roundTrip.stage = 1
  /\ cacheRet.evicted = CacheKeyNames \ {roundTrip.key}
  /\ CacheKeys(cacheStore) = {roundTrip.key}
  /\ cacheStore[1].createdAt = now
  /\ now = 0

\* C25: a getOrSet() call made while no other is in flight invokes the
\* factory only when the store holds no unexpired entry for the key; when
\* the factory resolves, its value is stored under the key and returned;
\* when it rejects, the store is left as it was and the caller gets the
\* error.
C25_FactoryOnlyWithoutEntry ==
  [][/\ \A c \in CacheCallers, key \in CacheKeyNames, ttlMs \in CacheTtlArgs :
          (/\ CacheGetOrSetCall(c, key, ttlMs)
           /\ \A d \in CacheCallers : cacheProc[d].pc = "idle"
           /\ cacheProc'[c].pc = "factory")
          => ~\E i \in DOMAIN cacheStore :
                cacheStore[i].key = key /\ ~(now > cacheStore[i].expiresAt)
     /\ \A c \in CacheCallers, factory \in CacheFactories :
          CacheFactorySettled(c, factory)
          => IF factory = "reject"
               THEN cacheStore' = cacheStore /\ cacheRet'.threw
             ELSE /\ cacheRet'.value = factory
                  /\ ~cacheRet'.threw
                  /\ \E i \in DOMAIN cacheStore' :
                       /\ cacheStore'[i].key = cacheProc[c].key
                       /\ cacheStore'[i].value = factory]_vars

---------------------------------------------------------------------------
(* Properties of the Filter Engine                                         *)

\* The number of places of the list that hold q.
Occurrences(s, q) == Cardinality({i \in DOMAIN s : s[i] = q})

\* The quotes of the filtered entries, in their order.
FilteredQuotes == [i \in DOMAIN routingOut.filtered |-> routingOut.filtered[i].quote]

\* C26: filterQuotes partitions its input: every input quote is, as often
\* as the input holds it, in passed or in filtered (as filtered.quote),
\* never in both; nothing is added; both output lists keep the input order.
C26_FilterPartitionsInput ==
  routingOut.fn = "filterQuotes"
  => /\ Len(routingOut.passed) + Len(FilteredQuotes) = Len(routingQuotes)
     /\ Range(routingOut.passed) \cap Range(FilteredQuotes) = {}
     /\ Range(routingOut.passed) \cup Range(FilteredQuotes) = Range(routingQuotes)
     /\ \A q \in Range(routingQuotes) :
          Occurrences(routingOut.passed, q) + Occurrences(FilteredQuotes, q)
            = Occurrences(routingQuotes, q)
     /\ routingOut.passed = SelectSeqBy(routingQuotes, Range(routingOut.passed))
     /\ FilteredQuotes = SelectSeqBy(routingQuotes, Range(FilteredQuotes))

\* Three different quotes have been filtered: the second one passed, the
\* first and the third did not.
C26_Witness ==
  /\ routingOut.fn = "filterQuotes"
  /\ Len(routingQuotes) = 3
  /\ Cardinality(Range(routingQuotes)) = 3
  /\ routingOut.passed = <<routingQuotes[2]>>
  /\ FilteredQuotes = <<routingQuotes[1], routingQuotes[3]>>

\* The gates of the filter in their order.
GateOrder ==
  <<"region_unavailable", "region_not_allowed", "region_blocked", "amount_below_min",
    "amount_above_max", "daily_limit_exceeded", "method_not_supported">>

\* The quote rq fails the gate of that name.
GateFails(gate, rq, intent, config) ==
  CASE gate = "region_unavailable" -> rq.available = FALSE
    [] gate = "region_not_allowed" ->
         config.allowedRegions # {} /\ rq.region \notin config.allowedRegions
    [] gate = "region_blocked" -> rq.region \in config.blockedRegions
    [] gate = "amount_below_min" -> intent.amount < rq.limits.min
    [] gate = "amount_above_max" -> intent.amount > rq.limits.max
    [] gate = "daily_limit_exceeded" ->
         rq.limits.remainingDaily # Undefined
         /\ intent.amount > rq.limits.remainingDaily
    [] gate = "method_not_supported" ->
         rq.supportedMethods # {} /\ intent.paymentMethod \notin rq.supportedMethods

\* The gates the quote rq fails, by their place in the order.
FailingGates(rq) ==
  {g \in DOMAIN GateOrder : GateFails(GateOrder[g], rq, ValidIntent, routingConfig)}

\* C27: the reason recorded for a filtered quote is that of the first gate
\* it fails, in the order region_unavailable, region_not_allowed,
\* region_blocked, amount_below_min, amount_above_max, daily_limit_exceeded,
\* method_not_supported; a quote passes iff it fails no gate; an unavailable
\* quote gets region_unavailable whatever the allow and block lists hold.
C27_ReasonOfFirstFailingGate ==
  routingOut.fn = "filterQuotes"
  => /\ \A i \in DOMAIN routingOut.filtered :
          LET f == routingOut.filtered[i]
          IN  /\ FailingGates(f.quote) # {}
              /\ \E g \in FailingGates(f.quote) :
                   /\ f.reason = GateOrder[g]
                   /\ \A h \in FailingGates(f.quote) : g <= h
     /\ \A q \in Range(routingQuotes) :
          q \in Range(routingOut.passed) <=> FailingGates(q) = {}
     /\ \A q \in Range(routingQuotes) :
          ~q.available
          => \E i \in DOMAIN routingOut.filtered :
               /\ routingOut.filtered[i].quote = q
               /\ routingOut.filtered[i].reason = "region_unavailable"

\* An unavailable quote of a region outside the allow list, which fails
\* three gates more, has been filtered as unavailable, beside a quote that
\* fails the last three gates and one that passes.
C27_Witness ==
  /\ routingOut.fn = "filterQuotes"
  /\ routingConfig.allowedRegions = {"EU", "UK"}
  /\ routingConfig.blockedRegions = {}
  /\ Len(routingOut.passed) = 1
  /\ \E i, j \in DOMAIN routingOut.filtered :
       /\ routingOut.filtered[i].reason = "region_unavailable"
       /\ Cardinality(FailingGates(routingOut.filtered[i].quote)) = 4
       /\ routingOut.filtered[j].reason = "method_not_supported"

---------------------------------------------------------------------------
(* Properties of the Scoring Engine                                        *)

\* The quotes as they were before they were scored.
Unscored(quotes) == [i \in DOMAIN quotes |-> [quotes[i] EXCEPT !.score = Rat(0, 1)]]

\* C28: scoreQuotes returns, for a non-empty list and any weights, the
\* input quotes, none dropped or duplicated, in the order of non-decreasing
\* score, every score within [0, 1], and best is the first of them; for the
\* empty list it returns the empty list and no best quote.
C28_ScoredPermutationInOrder ==
  routingOut.fn = "scoreQuotes"
  => IF routingQuotes = <<>>
       THEN routingOut.quotes = <<>> /\ routingOut.best = <<>>
     ELSE /\ Len(routingOut.quotes) = Len(routingQuotes)
          /\ \A q \in QuoteUniverse :
               Occurrences(Unscored(routingOut.quotes), q) = Occurrences(routingQuotes, q)
          /\ \A i \in DOMAIN routingOut.quotes :
               /\ ~RLess(routingOut.quotes[i].score, Rat(0, 1))
               /\ ~RLess(Rat(1, 1), routingOut.quotes[i].score)
          /\ \A i \in 1..(Len(routingOut.quotes) - 1) :
               ~RLess(routingOut.quotes[i + 1].score, routingOut.quotes[i].score)
          /\ routingOut.best = <<routingOut.quotes[1]>>

\* Three different quotes have been scored with weights above 1: they came
\* out in another order than they went in, the first with a score inside
\* (0, 1) and the last with the score 1.
C28_Witness ==
  /\ routingOut.fn = "scoreQuotes"
  /\ routingOut.weights.price > 100
  /\ Len(routingQuotes) = 3
  /\ Cardinality(Range(routingQuotes)) = 3
  /\ Unscored(routingOut.quotes) # routingQuotes
  /\ RLess(Rat(0, 1), routingOut.quotes[1].score)
  /\ RLess(routingOut.quotes[1].score, routingOut.quotes[2].score)
  /\ routingOut.quotes[3].score = Rat(1, 1)

\* C29: with the weights of the cheapest strategy (price 1, success 0,
\* latency 0) the quotes are ranked by non-decreasing totalCost, so that the
\* top-ranked quote is one with the lowest totalCost among those scored.
C29_CheapestRanksByCost ==
  (/\ routingOut.fn = "scoreQuotes"
   /\ routingOut.weights = [price |-> 100, success |-> 0, latency |-> 0])
  => /\ \A i \in 1..(Len(routingOut.quotes) - 1) :
          routingOut.quotes[i].totalCost <= routingOut.quotes[i + 1].totalCost
     /\ \A q \in Range(routingQuotes) :
          routingOut.best # <<>> /\ routingOut.best[1].totalCost <= q.totalCost

---------------------------------------------------------------------------
(* Properties of the Strategy Decider                                      *)

\* The available quotes of the pinned region among those under test.
PinnedCandidates ==
  {q \in Range(routingQuotes) : q.region = routingConfig.pinnedRegion /\ q.available}

\* C30: in pinned mode, when the quote set holds an available quote of
\* pinnedRegion, makeRouteDecision chooses that region and its router,
\* whatever the scores, and the alternatives are all the other quotes of
\* the quote set; when pinnedRegion has no available quote, the decision is
\* the one auto mode produces.
C30_PinnedChoiceAndAlternatives ==
  (routingOut.fn = "makeRouteDecision" /\ routingConfig.mode = "pinned")
  => IF PinnedCandidates # {}
       THEN /\ routingOut.decision # <<>>
            /\ \E chosen \in PinnedCandidates :
                 /\ routingOut.decision[1].chosenRegion = chosen.region
                 /\ routingOut.decision[1].chosenRouterId = chosen.routerId
                 /\ Range(routingOut.decision[1].alternatives)
                      = Range(routingQuotes) \ {chosen}
     ELSE routingOut.decision
            = makeRouteDecision(QuoteResultOf(routingQuotes),
                                [routingConfig EXCEPT !.mode = "auto"])

\* The available quotes under test, in their order.
AvailableQuotes == SelectSeqBy(routingQuotes, {q \in Range(routingQuotes) : q.available})

============================================================================
